---------------------------- MODULE Spec2Model ----------------------------
(***************************************************************************)
(* GoldSim-SWMM bridge (SwmmGoldSimBridge.cpp, MappingLoader.cpp) as a     *)
(* state machine.  One action per driver call of the exported procedure    *)
(* SwmmGoldSimBridge(methodID, status, inargs, outargs); every action is   *)
(* the whole handler, the engine calls it makes included.  The hydraulic   *)
(* engine is the one of tests/swmm_mock.cpp, with its return codes chosen  *)
(* by the environment at every call.                                       *)
(*                                                                         *)
(* Times are kept in seconds.  The code divides by 86400.0 and compares    *)
(* days; the division is monotone, so the comparisons are those of the     *)
(* code for the integral second values used here.                         *)
(***************************************************************************)
EXTENDS Integers, Sequences, FiniteSets, TLC

VARIABLES
    sim,            \* SwmmSimulation: is_running_, last_swmm_time_, indices, error_buffer_
    mapping,        \* BridgeHandler::mapping_ (MappingLoader: inputs_, outputs_)
    mapping_loaded, \* BridgeHandler::mapping_loaded_
    engine,         \* the engine: g_mock_state of swmm_mock.cpp
    error_buffer,   \* static error_buffer of BridgeHandler::SetErrorMessage
    outargs,        \* the driver's output array at the return of the last call
    status,         \* *status of the last driver call
    calls,          \* the engine calls made by the last driver call, in order
    last_call,      \* the last driver call (method name)
    inargs,         \* the input array of the last Calculate of the running session
    exchanges,      \* the Calculate calls of the running session so far
    prev_outcome,   \* how the driver call before the last one ended (see Outcome)
    config_read     \* the file (position in Configs) that the last driver call
                    \* handed to the loader, 0 when it did not run the loader

vars == <<sim, mapping, mapping_loaded, engine, error_buffer,
          outargs, status, calls, last_call, inargs, exchanges, prev_outcome,
          config_read>>

---------------------------------------------------------------------------
\* Bounds of the model.

\* Calculate calls counted per session (the counter saturates here).
MaxExchanges == 2
\* The engine reports normal termination on its EndAfter-th step
\* (SwmmMock_SetStepEndAfter).
EndAfter == 2

\* Program constants.
Success == 0
Failure == 1
FailureWithMessage == -1
SecondsPerDay == 86400
\* swmm_getValue(swmm_ROUTESTEP, 0): the engine's routing step, in seconds.
RouteStep == 200
\* The engine's error code for a failed call.
ErrCode == 200

Codes == {0, ErrCode}

\* Slots of the driver's arrays, and the values the driver supplies.
Slots == {0, 1}
InVals == {0, 199}

---------------------------------------------------------------------------
\* Values in the output array: a number, the engine's value of a channel of
\* an object after n completed steps, or the address of the message buffer.

Num(x) == [k |-> "num", ch |-> "", h |-> 0, n |-> x]
EngVal(ch, h, n) == [k |-> "eng", ch |-> ch, h |-> h, n |-> n]
BufferAddr == [k |-> "addr", ch |-> "error_buffer", h |-> 0, n |-> 0]
\* What the driver leaves in a slot before a call.
Unset == [k |-> "unset", ch |-> "", h |-> 0, n |-> 0]

\* One engine call in the log.
Call(op, ch, name, idx, val) ==
    [op |-> op, ch |-> ch, name |-> name, idx |-> idx, val |-> val]
\* A call that returns a code; val is the code it returned.
Op(op, code) == Call(op, "", "", 0, code)

Ops(cs) == [i \in DOMAIN cs |-> cs[i].op]
Count(cs, op) == Cardinality({i \in DOMAIN cs : cs[i].op = op})

---------------------------------------------------------------------------
\* The configuration file, as the loader sees it.

InRec(i, nm, t, p) ==
    [interface_index |-> i, name |-> nm, object_type |-> t, property |-> p,
     swmm_index |-> -1, lacks |-> ""]
OutRec(i, nm, t, p, h) ==
    [interface_index |-> i, name |-> nm, object_type |-> t, property |-> p,
     swmm_index |-> h, lacks |-> ""]

File(ins, outs) ==
    [exists |-> TRUE, empty |-> FALSE, is_object |-> TRUE, version |-> "1.0",
     lacks |-> "", input_count |-> Len(ins), output_count |-> Len(outs),
     inputs |-> ins, outputs |-> outs]

SysTime(i) == InRec(i, "ElapsedTime", "SYSTEM", "ELAPSEDTIME")
Rain(i) == InRec(i, "RG1", "GAGE", "RAINFALL")

CfgA == File(<<SysTime(0), Rain(1)>>,
             <<OutRec(0, "OUT1", "OUTFALL", "FLOW", 1),
               OutRec(1, "POND1", "STORAGE", "VOLUME", 2)>>)
CfgB == File(<<Rain(0), SysTime(1)>>,
             <<OutRec(1, "S1", "SUBCATCH", "RUNOFF", 0)>>)
CfgMissing == [CfgA EXCEPT !.exists = FALSE]
CfgInCount == [File(<<SysTime(0), Rain(1), InRec(1, "J1", "NODE", "LATFLOW")>>,
                    <<OutRec(0, "OUT1", "OUTFALL", "FLOW", 1)>>)
                 EXCEPT !.input_count = 1]
CfgNope == File(<<SysTime(0)>>, <<OutRec(0, "NOPE", "OUTFALL", "FLOW", 0)>>)
CfgBadProp == File(<<SysTime(0), Rain(1), InRec(1, "P1", "PUMP", "BADPROP")>>,
                   <<OutRec(0, "OUT1", "OUTFALL", "FLOW", 1)>>)

\* An input element the engine does not know, with records after it.
CfgNoGage == File(<<SysTime(0), InRec(1, "NOPE", "GAGE", "RAINFALL"), Rain(1)>>,
                  <<OutRec(0, "OUT1", "OUTFALL", "FLOW", 1)>>)
\* An input type tag that is not supported, with records after it.
CfgBadTag == File(<<SysTime(0), InRec(1, "P1", "CONDUIT", "SETTING"), Rain(1)>>,
                  <<OutRec(0, "OUT1", "OUTFALL", "FLOW", 1)>>)
\* An output under the container tag LID, named container/sub-object.
CfgLid == File(<<SysTime(0)>>,
               <<OutRec(0, "S1/LID1", "LID", "FLOW", 0),
                 OutRec(1, "OUT1", "OUTFALL", "FLOW", 1)>>)
\* A file without the "version" key.
CfgNoVersion == [CfgA EXCEPT !.lacks = "version"]

\* A file that declares more output records than it lists.
CfgOutCount == [File(<<SysTime(0)>>,
                     <<OutRec(0, "OUT1", "OUTFALL", "FLOW", 1),
                       OutRec(1, "POND1", "STORAGE", "VOLUME", 2)>>)
                  EXCEPT !.output_count = 3]

Configs == <<CfgA, CfgB, CfgMissing, CfgInCount, CfgNope, CfgBadProp,
             CfgNoGage, CfgBadTag, CfgLid, CfgNoVersion, CfgOutCount>>

---------------------------------------------------------------------------
\* Messages.  A message is a record: its kind (which fixed text it is), the
\* strings spliced into the fixed text, in order, whether the text has the
\* three-part "Error:/Context:/Suggestion:" form, and its length in characters.

\* The number of characters of the strings that messages carry.
StrLen(s) ==
    CASE s \in {"0", "1", "2", "3"} -> 1
      [] s \in {"-1", "S1", "J1", "P1"} -> 2
      [] s \in {"RG1", "OR1", "1.0", "LID"} -> 3
      [] s \in {"OUT1", "NOPE", "GAGE", "PUMP", "WEIR", "NODE", "FLOW"} -> 4
      [] s \in {"POND1", "Input"} -> 5
      [] s \in {"SYSTEM", "VOLUME", "RUNOFF", "inputs", "Output"} -> 6
      [] s \in {"ORIFICE", "STORAGE", "OUTFALL", "LATFLOW", "SETTING", "BADPROP",
                "CONDUIT", "version", "outputs", "S1/LID1"} -> 7
      [] s \in {"SUBCATCH", "RAINFALL"} -> 8
      [] s = "model.inp" -> 9
      [] s \in {"ElapsedTime", "ELAPSEDTIME", "input_count"} -> 11
      [] s = "output_count" -> 12
      [] s = "inp_file_hash" -> 13
      [] s = "SwmmGoldSimBridge.json" -> 22
      [] s = "engine text" -> 44

\* The number of characters of the fixed text of a message kind.
FixedLen(kind) ==
    CASE kind = "" -> 0
      [] kind = "MappingFileNotFound" -> 112
      [] kind = "MappingFileEmpty" -> 114
      [] kind = "InvalidMappingFormat" -> 144
      [] kind = "UnsupportedVersion" -> 150
      [] kind = "InputCountMismatch" -> 123
      [] kind = "OutputCountMismatch" -> 125
      [] kind = "MissingField" -> 24
      [] kind = "InputFileNotFound" -> 118
      [] kind = "FailedToCleanup" -> 37
      [] kind = "UnknownInputObjectType" -> 128
      [] kind = "UnknownOutputObjectType" -> 139
      [] kind = "ElementNotFound" -> 99
      [] kind = "SubcatchmentIndexOutOfRange" -> 140
      [] kind = "SWMM not running" -> 16
      [] kind = "UnknownInputProperty" -> 192
      [] kind = "UnknownOutputProperty" -> 179
      [] kind = "InvalidElementHandle" -> 137
      [] kind = "EngineError" -> 0

RECURSIVE SumLen(_, _)
SumLen(ctx, i) == IF i > Len(ctx) THEN 0 ELSE StrLen(ctx[i]) + SumLen(ctx, i + 1)

Msg(kind, ctx, threePart) ==
    [kind |-> kind, ctx |-> ctx, three_part |-> threePart,
     len |-> FixedLen(kind) + SumLen(ctx, 1)]
NoMsg == Msg("", <<>>, FALSE)

\* std::to_string / %d of the small numbers that messages carry.
ToStr(n) == CASE n = -1 -> "-1" [] n = 0 -> "0" [] n = 1 -> "1" [] n = 2 -> "2" [] n = 3 -> "3"

\* The path of the mapping file and of the model file.
MappingPath == "SwmmGoldSimBridge.json"
InputPath == "model.inp"

---------------------------------------------------------------------------
\* MappingLoader

\* parseInputArray / parseOutputArray: records are appended until one lacks
\* a required field.
RECURSIVE ParseArray(_, _, _)
ParseArray(recs, i, acc) ==
    IF i > Len(recs) THEN [ok |-> TRUE, recs |-> acc, error |-> NoMsg]
    ELSE IF recs[i].lacks # ""
         THEN [ok |-> FALSE, recs |-> acc,
               error |-> Msg("MissingField", <<recs[i].lacks>>, FALSE)]
         ELSE ParseArray(recs, i + 1, Append(acc, recs[i]))

\* A faulty LoadFromFile that does not compare the number of output records
\* with output_count.
LoadFromFile_OutputCountUnchecked(f) ==
    LET none == <<>>
        fail(ins, outs, m) == [ok |-> FALSE, inputs |-> ins, outputs |-> outs, error |-> m]
    IN  IF ~f.exists THEN fail(none, none, Msg("MappingFileNotFound", <<MappingPath>>, TRUE))
        ELSE IF f.empty THEN fail(none, none, Msg("MappingFileEmpty", <<MappingPath>>, TRUE))
        ELSE IF ~f.is_object THEN fail(none, none, Msg("InvalidMappingFormat", <<MappingPath>>, TRUE))
        ELSE IF f.lacks = "version" THEN fail(none, none, Msg("MissingField", <<"version">>, FALSE))
        ELSE IF f.version # "1.0" THEN fail(none, none, Msg("UnsupportedVersion", <<f.version, MappingPath>>, TRUE))
        ELSE IF f.lacks \in {"inp_file_hash", "input_count", "output_count", "inputs"}
             THEN fail(none, none, Msg("MissingField", <<f.lacks>>, FALSE))
        ELSE LET pin == ParseArray(f.inputs, 1, <<>>)
             IN  IF ~pin.ok THEN fail(pin.recs, none, pin.error)
                 ELSE IF Len(pin.recs) # f.input_count
                      THEN fail(pin.recs, none, Msg("InputCountMismatch",
                                           <<ToStr(f.input_count), ToStr(Len(pin.recs))>>, TRUE))
                 ELSE IF f.lacks = "outputs"
                      THEN fail(pin.recs, none, Msg("MissingField", <<"outputs">>, FALSE))
                 ELSE LET pout == ParseArray(f.outputs, 1, <<>>)
                      IN  IF ~pout.ok THEN fail(pin.recs, pout.recs, pout.error)
                          ELSE [ok |-> TRUE, inputs |-> pin.recs,
                                outputs |-> pout.recs, error |-> NoMsg]

\* MappingLoader::LoadFromFile: the loader's inputs_ and outputs_ after the
\* call, whether it succeeded, and its error.
LoadFromFile(f) ==
    LET none == <<>>
        fail(ins, outs, m) == [ok |-> FALSE, inputs |-> ins, outputs |-> outs, error |-> m]
    IN  IF ~f.exists THEN fail(none, none, Msg("MappingFileNotFound", <<MappingPath>>, TRUE))
        ELSE IF f.empty THEN fail(none, none, Msg("MappingFileEmpty", <<MappingPath>>, TRUE))
        ELSE IF ~f.is_object THEN fail(none, none, Msg("InvalidMappingFormat", <<MappingPath>>, TRUE))
        ELSE IF f.lacks = "version" THEN fail(none, none, Msg("MissingField", <<"version">>, FALSE))
        ELSE IF f.version # "1.0" THEN fail(none, none, Msg("UnsupportedVersion", <<f.version, MappingPath>>, TRUE))
        ELSE IF f.lacks \in {"inp_file_hash", "input_count", "output_count", "inputs"}
             THEN fail(none, none, Msg("MissingField", <<f.lacks>>, FALSE))
        ELSE LET pin == ParseArray(f.inputs, 1, <<>>)
             IN  IF ~pin.ok THEN fail(pin.recs, none, pin.error)
                 ELSE IF Len(pin.recs) # f.input_count
                      THEN fail(pin.recs, none, Msg("InputCountMismatch",
                                           <<ToStr(f.input_count), ToStr(Len(pin.recs))>>, TRUE))
                 ELSE IF f.lacks = "outputs"
                      THEN fail(pin.recs, none, Msg("MissingField", <<"outputs">>, FALSE))
                 ELSE LET pout == ParseArray(f.outputs, 1, <<>>)
                      IN  IF ~pout.ok THEN fail(pin.recs, pout.recs, pout.error)
                          ELSE IF Len(pout.recs) # f.output_count
                               THEN fail(pin.recs, pout.recs,
                                         Msg("OutputCountMismatch",
                                             <<ToStr(f.output_count), ToStr(Len(pout.recs))>>,
                                             TRUE))
                               ELSE [ok |-> TRUE, inputs |-> pin.recs,
                                     outputs |-> pout.recs, error |-> NoMsg]

---------------------------------------------------------------------------
\* The hydraulic engine (tests/swmm_mock.cpp).  engine.steps is the number of
\* steps completed since the last successful start: the engine's time.

\* The objects of the loaded model, by category; a handle is a position.
EngineNames(type) ==
    CASE type = "swmm_GAGE" -> <<"RG1">>
      [] type = "swmm_SUBCATCH" -> <<"S1">>
      [] type = "swmm_NODE" -> <<"J1", "OUT1", "POND1">>
      [] type = "swmm_LINK" -> <<"P1", "OR1">>
      [] OTHER -> <<>>

\* swmm_getIndex(type, name): the handle of the named object, or -1.
swmm_getIndex(type, name) ==
    LET names == EngineNames(type)
        hits == {i \in DOMAIN names : names[i] = name}
    IN  IF hits = {} THEN -1 ELSE (CHOOSE i \in hits : TRUE) - 1

\* swmm_getCount(type)
swmm_getCount(type) == Len(EngineNames(type))

\* swmm_getValue(channel, handle): the value now, at engine time e.steps.
swmm_getValue(e, ch, h) == EngVal(ch, h, e.steps)

\* swmm_getError: the text of the engine's error.  The bridge asks for it only
\* right after an engine call returned an error code.
swmm_getError == Msg("EngineError", <<"engine text">>, FALSE)

swmm_open(e, code) ==
    [e EXCEPT !.is_opened = IF code = 0 THEN TRUE ELSE @]

swmm_start(e, code) ==
    [e EXCEPT !.is_started = IF code = 0 THEN TRUE ELSE @,
              !.steps = IF code = 0 THEN 0 ELSE @]

swmm_end(e, code) ==
    [e EXCEPT !.is_started = FALSE]

swmm_close(e, code) ==
    [e EXCEPT !.is_opened = FALSE]

\* swmm_step: the code is -1 when the environment makes the step fail; else
\* 1 on the EndAfter-th step and 0 before it.  A failed step completes nothing.
StepCode(e, fails) ==
    IF fails THEN -1 ELSE IF e.steps + 1 >= EndAfter THEN 1 ELSE 0

swmm_step(e, fails) ==
    [e EXCEPT !.steps = IF fails THEN @ ELSE @ + 1]

---------------------------------------------------------------------------
\* SwmmSimulation.  The operators take and return a context
\* [sim, engine, calls, outargs, ok, error]: the simulation object, the
\* engine, the engine calls made so far in this driver call, the driver's
\* output array, and the result (return value and error string).

Ctx(s, e, out) ==
    [sim |-> s, engine |-> e, calls |-> <<>>, outargs |-> out, ok |-> TRUE, error |-> NoMsg]

\* SwmmSimulation::GetSwmmError
GetSwmmError(c) ==
    [c EXCEPT !.sim.error_buffer = swmm_getError,
              !.error = swmm_getError,
              !.calls = Append(@, Op("swmm_getError", 0))]

\* A faulty Cleanup that ends and closes the engine whether or not a
\* session is running.
Cleanup_NoRunningCheck(c, end_code, close_code) ==
    [c EXCEPT !.engine = swmm_close(swmm_end(@, end_code), close_code),
              !.calls = @ \o <<Op("swmm_end", end_code), Op("swmm_close", close_code)>>,
              !.sim.is_running = FALSE,
              !.ok = (end_code = 0 /\ close_code = 0)]

\* A faulty Cleanup that returns as soon as swmm_end reports an error.
Cleanup_ReturnsOnEndError(c, end_code, close_code) ==
    IF ~c.sim.is_running THEN [c EXCEPT !.ok = TRUE]
    ELSE IF end_code # 0
    THEN [c EXCEPT !.engine = swmm_end(@, end_code),
                   !.calls = Append(@, Op("swmm_end", end_code)),
                   !.ok = FALSE]
    ELSE [c EXCEPT !.engine = swmm_close(swmm_end(@, end_code), close_code),
                   !.calls = @ \o <<Op("swmm_end", end_code), Op("swmm_close", close_code)>>,
                   !.sim.is_running = FALSE,
                   !.ok = (close_code = 0)]

\* SwmmSimulation::Cleanup
Cleanup(c, end_code, close_code) ==
    IF ~c.sim.is_running THEN [c EXCEPT !.ok = TRUE]
    ELSE [c EXCEPT !.engine = swmm_close(swmm_end(@, end_code), close_code),
                   !.calls = @ \o <<Op("swmm_end", end_code), Op("swmm_close", close_code)>>,
                   !.sim.is_running = FALSE,
                   !.ok = (end_code = 0 /\ close_code = 0)]

\* A faulty InputObjType that takes the tag CONDUIT for a link.
InputObjType_TakesConduit(t) ==
    CASE t = "GAGE" -> "swmm_GAGE"
      [] t \in {"PUMP", "ORIFICE", "WEIR", "CONDUIT"} -> "swmm_LINK"
      [] t = "NODE" -> "swmm_NODE"
      [] OTHER -> ""

\* ValidateMapping: the engine category of an input / output type tag ("" = none).
InputObjType(t) ==
    CASE t = "GAGE" -> "swmm_GAGE"
      [] t \in {"PUMP", "ORIFICE", "WEIR"} -> "swmm_LINK"
      [] t = "NODE" -> "swmm_NODE"
      [] OTHER -> ""

OutputObjType(t) ==
    CASE t \in {"STORAGE", "OUTFALL"} -> "swmm_NODE"
      [] t \in {"ORIFICE", "WEIR"} -> "swmm_LINK"
      [] t = "SUBCATCH" -> "swmm_SUBCATCH"
      [] OTHER -> ""

\* A faulty input loop of ValidateMapping that asks the engine for the name of
\* a SYSTEM record as well.
RECURSIVE ResolveInputs_LooksUpSystem(_, _, _)
ResolveInputs_LooksUpSystem(c, inputs, i) ==
    IF i > Len(inputs) THEN [c EXCEPT !.ok = TRUE]
    ELSE LET r == inputs[i]
             type == InputObjType(r.object_type)
             idx == swmm_getIndex(type, r.name)
             looked == [c EXCEPT !.calls = Append(@, Call("swmm_getIndex", type, r.name, idx, 0))]
         IN  IF r.object_type = "SYSTEM"
             THEN ResolveInputs_LooksUpSystem([looked EXCEPT !.sim.input_indices = Append(@, idx)],
                                              inputs, i + 1)
             ELSE IF type = ""
             THEN [c EXCEPT !.ok = FALSE,
                            !.error = Msg("UnknownInputObjectType",
                                         <<r.object_type, r.name>>, TRUE)]
             ELSE IF idx < 0
             THEN [looked EXCEPT !.ok = FALSE,
                                 !.error = Msg("ElementNotFound",
                                              <<r.object_type, r.name, r.object_type, r.name>>,
                                              TRUE)]
             ELSE ResolveInputs_LooksUpSystem([looked EXCEPT !.sim.input_indices = Append(@, idx)],
                                              inputs, i + 1)

\* The input loop of ValidateMapping, from record i on.
RECURSIVE ResolveInputs(_, _, _)
ResolveInputs(c, inputs, i) ==
    IF i > Len(inputs) THEN [c EXCEPT !.ok = TRUE]
    ELSE LET r == inputs[i]
             type == InputObjType(r.object_type)
             idx == swmm_getIndex(type, r.name)
             looked == [c EXCEPT !.calls = Append(@, Call("swmm_getIndex", type, r.name, idx, 0))]
         IN  IF r.object_type = "SYSTEM"
             THEN ResolveInputs([c EXCEPT !.sim.input_indices = Append(@, -1)], inputs, i + 1)
             ELSE IF type = ""
             THEN [c EXCEPT !.ok = FALSE,
                            !.error = Msg("UnknownInputObjectType",
                                         <<r.object_type, r.name>>, TRUE)]
             ELSE IF idx < 0
             THEN [looked EXCEPT !.ok = FALSE,
                                 !.error = Msg("ElementNotFound",
                                              <<r.object_type, r.name, r.object_type, r.name>>,
                                              TRUE)]
             ELSE ResolveInputs([looked EXCEPT !.sim.input_indices = Append(@, idx)],
                                inputs, i + 1)

\* The output loop of ValidateMapping, from record i on.
RECURSIVE ResolveOutputs(_, _, _)
ResolveOutputs(c, outputs, i) ==
    IF i > Len(outputs) THEN [c EXCEPT !.ok = TRUE]
    ELSE LET r == outputs[i]
             type == OutputObjType(r.object_type)
             idx == swmm_getIndex(type, r.name)
             looked == [c EXCEPT !.calls = Append(@, Call("swmm_getIndex", type, r.name, idx, 0))]
         IN  IF type = ""
             THEN [c EXCEPT !.ok = FALSE,
                            !.error = Msg("UnknownOutputObjectType",
                                         <<r.object_type, r.name>>, TRUE)]
             ELSE IF idx < 0
             THEN [looked EXCEPT !.ok = FALSE,
                                 !.error = Msg("ElementNotFound",
                                              <<r.object_type, r.name, r.object_type, r.name>>,
                                              TRUE)]
             ELSE ResolveOutputs([looked EXCEPT !.sim.output_indices = Append(@, idx)],
                                 outputs, i + 1)

\* A faulty ValidateMapping that passes a mapping with a name the engine does
\* not know.
ValidateMapping_PassesUnknownNames(c, m) ==
    LET cleared == [c EXCEPT !.sim.input_indices = <<>>, !.sim.output_indices = <<>>]
        ins == ResolveInputs(cleared, m.inputs, 1)
        v == IF ~ins.ok THEN ins ELSE ResolveOutputs(ins, m.outputs, 1)
    IN  IF ~v.ok /\ v.error.kind = "ElementNotFound"
        THEN [v EXCEPT !.ok = TRUE, !.error = c.error]
        ELSE v

\* A faulty ValidateMapping that goes on to the output records after an input
\* record failed to resolve.
ValidateMapping_KeepsGoing(c, m) ==
    LET cleared == [c EXCEPT !.sim.input_indices = <<>>, !.sim.output_indices = <<>>]
        ins == ResolveInputs(cleared, m.inputs, 1)
        outs == ResolveOutputs(ins, m.outputs, 1)
    IN  IF ins.ok THEN outs
        ELSE [outs EXCEPT !.ok = FALSE, !.error = ins.error]

\* SwmmSimulation::ValidateMapping
ValidateMapping(c, m) ==
    LET cleared == [c EXCEPT !.sim.input_indices = <<>>, !.sim.output_indices = <<>>]
        ins == ResolveInputs(cleared, m.inputs, 1)
    IN  IF ~ins.ok THEN ins ELSE ResolveOutputs(ins, m.outputs, 1)

\* A faulty ResetState that keeps the recorded time of the last step.
ResetState_KeepsLastStepTime(s) == [s EXCEPT !.is_running = TRUE]

\* Initialize: the state reset after a successful start.
ResetState(s) == [s EXCEPT !.is_running = TRUE, !.last_swmm_time = -SecondsPerDay]

\* A faulty Initialize that does not tear a running session down.
CleanupIfRunning_Never(c, end_code, close_code) == [c EXCEPT !.ok = TRUE]

\* Initialize: the teardown of a session that is already running.
CleanupIfRunning(c, end_code, close_code) ==
    IF c.sim.is_running THEN Cleanup(c, end_code, close_code) ELSE [c EXCEPT !.ok = TRUE]

\* A faulty Initialize that starts the engine before it resolves the names.
OpenAndStart_ResolvesAfterStart(c, m, open_code, start_code) ==
    LET opened == [c EXCEPT !.engine = swmm_open(@, open_code),
                            !.calls = Append(@, Op("swmm_open", open_code))]
        closed(x) == [x EXCEPT !.engine = swmm_close(swmm_end(@, 0), 0),
                               !.calls = Append(@, Op("swmm_close", 0)),
                               !.ok = FALSE]
        started == [opened EXCEPT !.engine = swmm_start(@, start_code),
                                  !.calls = Append(@, Op("swmm_start", start_code))]
        valid == ValidateMapping(started, m)
        counted == [valid EXCEPT !.calls = Append(@, Call("swmm_getCount", "swmm_SUBCATCH", "",
                                                         swmm_getCount("swmm_SUBCATCH"), 0))]
    IN  IF open_code # 0 THEN [GetSwmmError(opened) EXCEPT !.ok = FALSE]
        ELSE IF start_code # 0 THEN GetSwmmError(closed(started))
        ELSE IF ~valid.ok THEN closed(valid)
        ELSE IF \/ c.sim.subcatchment_index < 0
                \/ c.sim.subcatchment_index >= swmm_getCount("swmm_SUBCATCH")
             THEN [closed(counted) EXCEPT
                      !.error = Msg("SubcatchmentIndexOutOfRange",
                                     <<ToStr(c.sim.subcatchment_index),
                                       ToStr(swmm_getCount("swmm_SUBCATCH") - 1)>>, TRUE)]
        ELSE [counted EXCEPT !.sim = ResetState(@), !.ok = TRUE]

\* A faulty Initialize that leaves the engine open when swmm_start fails.
OpenAndStart_LeavesOpenOnStartError(c, m, open_code, start_code) ==
    LET opened == [c EXCEPT !.engine = swmm_open(@, open_code),
                            !.calls = Append(@, Op("swmm_open", open_code))]
        closed(x) == [x EXCEPT !.engine = swmm_close(@, 0),
                               !.calls = Append(@, Op("swmm_close", 0)),
                               !.ok = FALSE]
        valid == ValidateMapping(opened, m)
        counted == [valid EXCEPT !.calls = Append(@, Call("swmm_getCount", "swmm_SUBCATCH", "",
                                                         swmm_getCount("swmm_SUBCATCH"), 0))]
        started == [counted EXCEPT !.engine = swmm_start(@, start_code),
                                   !.calls = Append(@, Op("swmm_start", start_code))]
    IN  IF open_code # 0 THEN [GetSwmmError(opened) EXCEPT !.ok = FALSE]
        ELSE IF ~valid.ok THEN closed(valid)
        ELSE IF \/ c.sim.subcatchment_index < 0
                \/ c.sim.subcatchment_index >= swmm_getCount("swmm_SUBCATCH")
             THEN [closed(counted) EXCEPT
                      !.error = Msg("SubcatchmentIndexOutOfRange",
                                     <<ToStr(c.sim.subcatchment_index),
                                       ToStr(swmm_getCount("swmm_SUBCATCH") - 1)>>, TRUE)]
        ELSE IF start_code # 0 THEN [GetSwmmError(started) EXCEPT !.ok = FALSE]
        ELSE [started EXCEPT !.sim = ResetState(@), !.ok = TRUE]

\* A faulty Initialize that accepts a subcatchment index equal to the count.
OpenAndStart_AcceptsCount(c, m, open_code, start_code) ==
    LET opened == [c EXCEPT !.engine = swmm_open(@, open_code),
                            !.calls = Append(@, Op("swmm_open", open_code))]
        closed(x) == [x EXCEPT !.engine = swmm_close(@, 0),
                               !.calls = Append(@, Op("swmm_close", 0)),
                               !.ok = FALSE]
        valid == ValidateMapping(opened, m)
        counted == [valid EXCEPT !.calls = Append(@, Call("swmm_getCount", "swmm_SUBCATCH", "",
                                                         swmm_getCount("swmm_SUBCATCH"), 0))]
        started == [counted EXCEPT !.engine = swmm_start(@, start_code),
                                   !.calls = Append(@, Op("swmm_start", start_code))]
    IN  IF open_code # 0 THEN [GetSwmmError(opened) EXCEPT !.ok = FALSE]
        ELSE IF ~valid.ok THEN closed(valid)
        ELSE IF \/ c.sim.subcatchment_index < 0
                \/ c.sim.subcatchment_index > swmm_getCount("swmm_SUBCATCH")
             THEN [closed(counted) EXCEPT
                      !.error = Msg("SubcatchmentIndexOutOfRange",
                                     <<ToStr(c.sim.subcatchment_index),
                                       ToStr(swmm_getCount("swmm_SUBCATCH") - 1)>>, TRUE)]
        ELSE IF start_code # 0 THEN GetSwmmError(closed(started))
        ELSE [started EXCEPT !.sim = ResetState(@), !.ok = TRUE]

\* Initialize, from swmm_open on.
OpenAndStart(c, m, open_code, start_code) ==
    LET opened == [c EXCEPT !.engine = swmm_open(@, open_code),
                            !.calls = Append(@, Op("swmm_open", open_code))]
        closed(x) == [x EXCEPT !.engine = swmm_close(@, 0),
                               !.calls = Append(@, Op("swmm_close", 0)),
                               !.ok = FALSE]
        valid == ValidateMapping(opened, m)
        counted == [valid EXCEPT !.calls = Append(@, Call("swmm_getCount", "swmm_SUBCATCH", "",
                                                         swmm_getCount("swmm_SUBCATCH"), 0))]
        started == [counted EXCEPT !.engine = swmm_start(@, start_code),
                                   !.calls = Append(@, Op("swmm_start", start_code))]
    IN  IF open_code # 0 THEN [GetSwmmError(opened) EXCEPT !.ok = FALSE]
        ELSE IF ~valid.ok THEN closed(valid)
        ELSE IF \/ c.sim.subcatchment_index < 0
                \/ c.sim.subcatchment_index >= swmm_getCount("swmm_SUBCATCH")
             THEN [closed(counted) EXCEPT
                      !.error = Msg("SubcatchmentIndexOutOfRange",
                                     <<ToStr(c.sim.subcatchment_index),
                                       ToStr(swmm_getCount("swmm_SUBCATCH") - 1)>>, TRUE)]
        ELSE IF start_code # 0 THEN GetSwmmError(closed(started))
        ELSE [started EXCEPT !.sim = ResetState(@), !.ok = TRUE]

\* A faulty Initialize that reports a failed teardown in the three-part form.
SimInitialize_LabelsFailedTeardown(c, m, inp_exists, end_code, close_code, open_code, start_code) ==
    LET cleaned == CleanupIfRunning(c, end_code, close_code)
    IN  IF ~cleaned.ok
        THEN [cleaned EXCEPT !.error = Msg("FailedToCleanup", <<>>, TRUE)]
        ELSE IF ~inp_exists
        THEN [cleaned EXCEPT !.ok = FALSE, !.error = Msg("InputFileNotFound", <<InputPath>>, TRUE)]
        ELSE OpenAndStart(cleaned, m, open_code, start_code)

\* SwmmSimulation::Initialize
SimInitialize(c, m, inp_exists, end_code, close_code, open_code, start_code) ==
    LET cleaned == CleanupIfRunning(c, end_code, close_code)
    IN  IF ~cleaned.ok
        THEN [cleaned EXCEPT !.error = Msg("FailedToCleanup", <<>>, FALSE)]
        ELSE IF ~inp_exists
        THEN [cleaned EXCEPT !.ok = FALSE, !.error = Msg("InputFileNotFound", <<InputPath>>, TRUE)]
        ELSE OpenAndStart(cleaned, m, open_code, start_code)

---------------------------------------------------------------------------
\* SwmmSimulation::Calculate

\* A faulty InputProperty that takes any property of a link for its setting.
InputProperty_AnyLinkProperty(t, p) ==
    CASE t = "GAGE" /\ p = "RAINFALL" -> "swmm_GAGE_RAINFALL"
      [] t \in {"PUMP", "ORIFICE", "WEIR"} -> "swmm_LINK_SETTING"
      [] t = "NODE" /\ p = "LATFLOW" -> "swmm_NODE_LATFLOW"
      [] OTHER -> ""

\* The property channel of an input / output record ("" = none).
InputProperty(t, p) ==
    CASE t = "GAGE" /\ p = "RAINFALL" -> "swmm_GAGE_RAINFALL"
      [] t \in {"PUMP", "ORIFICE", "WEIR"} /\ p = "SETTING" -> "swmm_LINK_SETTING"
      [] t = "NODE" /\ p = "LATFLOW" -> "swmm_NODE_LATFLOW"
      [] OTHER -> ""

OutputProperty(t, p) ==
    CASE t = "STORAGE" /\ p = "VOLUME" -> "swmm_NODE_VOLUME"
      [] t = "OUTFALL" /\ p = "FLOW" -> "swmm_NODE_INFLOW"
      [] t \in {"ORIFICE", "WEIR"} /\ p = "FLOW" -> "swmm_LINK_FLOW"
      [] t = "SUBCATCH" /\ p = "RUNOFF" -> "swmm_SUBCATCH_RUNOFF"
      [] OTHER -> ""

\* input_indices_[i] / output_indices_[i] (0-based i, here 1-based).  A read
\* past the end of the vector is undefined: it yields the value g that the
\* environment chose for this call.
IndexAt(indices, i, g) == IF i \in DOMAIN indices THEN indices[i] ELSE g
Garbage == {-1, 0}

\* The elapsed time of a Calculate call, in seconds.
ElapsedSeconds(m, in) == in[0]

\* A faulty InputValue that reads the other slot of the input array.
InputValue_WrongSlot(r, in) == in[IF r.interface_index = 0 THEN 1 ELSE 0]

\* The value handed to swmm_setValue for an input record.
InputValue(r, in) == in[r.interface_index]

\* A faulty input loop of Calculate that passes over a record whose property
\* makes no accepted combination with its tag.
RECURSIVE ApplyInputs_SkipsUnknownProperty(_, _, _, _, _)
ApplyInputs_SkipsUnknownProperty(c, inputs, in, i, g) ==
    IF i > Len(inputs) THEN [c EXCEPT !.ok = TRUE]
    ELSE LET r == inputs[i]
             prop == InputProperty(r.object_type, r.property)
             h == IndexAt(c.sim.input_indices, i, g)
         IN  IF r.object_type = "SYSTEM" \/ prop = ""
             THEN ApplyInputs_SkipsUnknownProperty(c, inputs, in, i + 1, g)
             ELSE IF h < 0
             THEN [c EXCEPT !.ok = FALSE,
                            !.error = Msg("InvalidElementHandle",
                                         <<"Input", r.name, r.object_type>>, TRUE)]
             ELSE ApplyInputs_SkipsUnknownProperty(
                      [c EXCEPT !.calls = Append(@, Call("swmm_setValue", prop, r.name, h,
                                                         InputValue(r, in)))],
                      inputs, in, i + 1, g)

\* The input loop of Calculate, from record i on.
RECURSIVE ApplyInputs(_, _, _, _, _)
ApplyInputs(c, inputs, in, i, g) ==
    IF i > Len(inputs) THEN [c EXCEPT !.ok = TRUE]
    ELSE LET r == inputs[i]
             prop == InputProperty(r.object_type, r.property)
             h == IndexAt(c.sim.input_indices, i, g)
         IN  IF r.object_type = "SYSTEM" THEN ApplyInputs(c, inputs, in, i + 1, g)
             ELSE IF prop = ""
             THEN [c EXCEPT !.ok = FALSE,
                            !.error = Msg("UnknownInputProperty",
                                         <<r.object_type, r.property, r.name>>, TRUE)]
             ELSE IF h < 0
             THEN [c EXCEPT !.ok = FALSE,
                            !.error = Msg("InvalidElementHandle",
                                         <<"Input", r.name, r.object_type>>, TRUE)]
             ELSE ApplyInputs(
                      [c EXCEPT !.calls = Append(@, Call("swmm_setValue", prop, r.name, h,
                                                         InputValue(r, in)))],
                      inputs, in, i + 1, g)

\* The output loop of Calculate, from record i on.
RECURSIVE ReadOutputs(_, _, _, _)
ReadOutputs(c, outputs, i, g) ==
    IF i > Len(outputs) THEN [c EXCEPT !.ok = TRUE]
    ELSE LET r == outputs[i]
             prop == OutputProperty(r.object_type, r.property)
             h == IndexAt(c.sim.output_indices, i, g)
         IN  IF h < 0
             THEN [c EXCEPT !.ok = FALSE,
                            !.error = Msg("InvalidElementHandle",
                                         <<"Output", r.name, r.object_type>>, TRUE)]
             ELSE IF prop = ""
             THEN [c EXCEPT !.ok = FALSE,
                            !.error = Msg("UnknownOutputProperty",
                                         <<r.object_type, r.property, r.name>>, TRUE)]
             ELSE ReadOutputs(
                      [c EXCEPT !.calls = Append(@, Call("swmm_getValue", prop, r.name, h, 0)),
                                !.outargs[r.interface_index] = swmm_getValue(c.engine, prop, h)],
                      outputs, i + 1, g)

\* A faulty ZeroOutputs that zeroes every slot of the output array.
ZeroOutputs_AllSlots(out, outputs, i) == [s \in DOMAIN out |-> Num(0)]

\* Zero out all outputs when the simulation ends.
RECURSIVE ZeroOutputs(_, _, _)
ZeroOutputs(out, outputs, i) ==
    IF i > Len(outputs) THEN out
    ELSE ZeroOutputs([out EXCEPT ![outputs[i].interface_index] = Num(0)], outputs, i + 1)

\* A faulty ShouldStepSimulation that waits for a whole routing step.
ShouldStepSimulation_NoTolerance(last_swmm_time, elapsed, routing_step) ==
    IF last_swmm_time < 0 THEN TRUE
    ELSE elapsed - last_swmm_time >= routing_step

\* A faulty ShouldStepSimulation that steps on every call.
ShouldStepSimulation_Always(last_swmm_time, elapsed, routing_step) == TRUE

\* A faulty ShouldStepSimulation that holds the engine on the first call.
ShouldStepSimulation_HoldsFirst(last_swmm_time, elapsed, routing_step) ==
    IF last_swmm_time < 0 THEN FALSE
    ELSE (elapsed - last_swmm_time) * 100 >= routing_step * 99

\* SwmmSimulation::ShouldStepSimulation, in seconds:
\* elapsed_days - last_swmm_time_ >= routing_step_days * 0.99.
ShouldStepSimulation(last_swmm_time, elapsed, routing_step) ==
    IF last_swmm_time < 0 THEN TRUE
    ELSE (elapsed - last_swmm_time) * 100 >= routing_step * 99

NotRunningMsg == Msg("SWMM not running", <<>>, FALSE)

\* A faulty StepFailed that tears the session down on a step error.
StepFailed_TearsDown(stepped) ==
    [GetSwmmError(Cleanup(stepped, 0, 0)) EXCEPT !.ok = FALSE]

\* A faulty StepFailed that only marks the session as not running.
StepFailed_DropsSession(stepped) ==
    [GetSwmmError(stepped) EXCEPT !.ok = FALSE, !.sim.is_running = FALSE]

\* Calculate, swmm_step returned a code < 0.
StepFailed(stepped) == [GetSwmmError(stepped) EXCEPT !.ok = FALSE]

\* A faulty SimulationEnded that leaves the session running.
SimulationEnded_KeepsRunning(stepped, m, end_code, close_code) ==
    [stepped EXCEPT !.outargs = ZeroOutputs(@, m.outputs, 1), !.ok = TRUE]

\* A faulty SimulationEnded that returns what Cleanup returned.
SimulationEnded_ReturnsCleanup(stepped, m, end_code, close_code) ==
    [Cleanup(stepped, end_code, close_code) EXCEPT
        !.outargs = ZeroOutputs(@, m.outputs, 1)]

\* Calculate, swmm_step returned a code > 0: the simulation ended normally.
SimulationEnded(stepped, m, end_code, close_code) ==
    [Cleanup(stepped, end_code, close_code) EXCEPT
        !.outargs = ZeroOutputs(@, m.outputs, 1), !.ok = TRUE]

\* A faulty Calculate that reads the outputs before it steps the engine.
StepAndRead_ReadsBeforeStep(c, m, elapsed, step_fails, end_code, close_code, g) ==
    LET asked == [c EXCEPT !.calls = Append(@, Call("swmm_getValue", "swmm_ROUTESTEP", "", 0, 0))]
        read == ReadOutputs(asked, m.outputs, 1, g)
        code == StepCode(read.engine, step_fails)
        stepped == [read EXCEPT !.engine = swmm_step(@, step_fails),
                                !.calls = Append(@, Op("swmm_step", code))]
    IN  IF ~ShouldStepSimulation(c.sim.last_swmm_time, elapsed, RouteStep) \/ ~read.ok
        THEN read
        ELSE IF code < 0 THEN StepFailed(stepped)
        ELSE IF code > 0 THEN SimulationEnded(stepped, m, end_code, close_code)
        ELSE [stepped EXCEPT !.sim.last_swmm_time = elapsed]

\* Calculate, from the stepping decision on.
StepAndRead(c, m, elapsed, step_fails, end_code, close_code, g) ==
    LET asked == [c EXCEPT !.calls = Append(@, Call("swmm_getValue", "swmm_ROUTESTEP", "", 0, 0))]
        code == StepCode(asked.engine, step_fails)
        stepped == [asked EXCEPT !.engine = swmm_step(@, step_fails),
                                 !.calls = Append(@, Op("swmm_step", code))]
    IN  IF ~ShouldStepSimulation(c.sim.last_swmm_time, elapsed, RouteStep)
        THEN ReadOutputs(asked, m.outputs, 1, g)
        ELSE IF code < 0 THEN StepFailed(stepped)
        ELSE IF code > 0 THEN SimulationEnded(stepped, m, end_code, close_code)
        ELSE ReadOutputs([stepped EXCEPT !.sim.last_swmm_time = elapsed], m.outputs, 1, g)

Calculate(c, m, in, step_fails, end_code, close_code, g) ==
    LET applied == ApplyInputs(c, m.inputs, in, 1, g)
    IN  IF ~c.sim.is_running THEN [c EXCEPT !.ok = FALSE, !.error = NotRunningMsg]
        ELSE IF ~applied.ok THEN applied
        ELSE StepAndRead(applied, m, ElapsedSeconds(m, in), step_fails, end_code, close_code, g)

---------------------------------------------------------------------------
\* BridgeHandler

\* GoldSim::ERROR_BUFFER_SIZE
ERROR_BUFFER_SIZE == 200

\* GoldSim::VERSION (1.04), in hundredths.
VERSION == 104

NoInput == [s \in Slots |-> -1]
SubcatchIndices == {-1, 0, 1, 2}

\* The output array the driver passes to a call.
Fresh == [s \in Slots |-> Unset]

\* The codes the environment may give a call that is made only when cond holds.
CodesIf(cond) == IF cond THEN Codes ELSE {0}

Init ==
    /\ sim = [is_running |-> FALSE, subcatchment_index |-> 0,
              last_swmm_time |-> -SecondsPerDay, error_buffer |-> NoMsg,
              input_indices |-> <<>>, output_indices |-> <<>>]
    /\ mapping = [inputs |-> <<>>, outputs |-> <<>>]
    /\ mapping_loaded = FALSE
    /\ engine = [is_opened |-> FALSE, is_started |-> FALSE, steps |-> 0]
    /\ error_buffer = NoMsg
    /\ outargs = Fresh
    /\ status = Success
    /\ calls = <<>>
    /\ last_call = "none"
    /\ inargs = NoInput
    /\ exchanges = 0
    /\ prev_outcome = ""
    /\ config_read = 0

\* How the last driver call ended: "step_error" for a Calculate whose step
\* reported an error, "ended" for one whose step reported normal termination.
Outcome ==
    IF last_call = "Calculate" /\ \E i \in DOMAIN calls : calls[i].op = "swmm_step" /\ calls[i].val < 0
    THEN "step_error"
    ELSE IF last_call = "Calculate" /\ \E i \in DOMAIN calls : calls[i].op = "swmm_step" /\ calls[i].val > 0
    THEN "ended"
    ELSE ""

\* A faulty SetErrorMessage that copies the whole message, however long.
SetErrorMessage_NoLimit(out, msg) ==
    [buffer |-> msg, outargs |-> [out EXCEPT ![0] = BufferAddr]]

\* BridgeHandler::SetErrorMessage: the message goes to the static buffer and
\* the buffer's address to the first output slot.
SetErrorMessage(out, msg) ==
    [buffer |-> [msg EXCEPT !.len = IF @ < ERROR_BUFFER_SIZE THEN @ ELSE ERROR_BUFFER_SIZE - 1],
     outargs |-> [out EXCEPT ![0] = BufferAddr]]

\* mapping_ after LoadFromFile.
Loaded(ld) == [inputs |-> ld.inputs, outputs |-> ld.outputs]

\* The reply to a failed mapping load, the same in the three handlers.
MappingLoadFailed(ld) ==
    /\ mapping' = Loaded(ld)
    /\ error_buffer' = SetErrorMessage(Fresh, ld.error).buffer
    /\ outargs' = SetErrorMessage(Fresh, ld.error).outargs
    /\ status' = FailureWithMessage
    /\ calls' = <<>>
    /\ UNCHANGED <<sim, mapping_loaded, engine, inargs, exchanges>>

\* A faulty HandleInitialize that runs the loader only when no mapping is
\* cached.
HandleInitialize_KeepsCachedMapping ==
    \E f \in DOMAIN Configs :
    \E ld \in {IF mapping_loaded
               THEN [ok |-> TRUE, inputs |-> mapping.inputs, outputs |-> mapping.outputs,
                     error |-> NoMsg]
               ELSE LoadFromFile(Configs[f])} :
    \E end_code \in CodesIf(ld.ok /\ sim.is_running),
       close_code \in CodesIf(ld.ok /\ sim.is_running) :
    \E inp_exists \in IF ld.ok /\ end_code = 0 /\ close_code = 0 THEN BOOLEAN ELSE {TRUE} :
    \E open_code \in CodesIf(ld.ok /\ inp_exists /\ end_code = 0 /\ close_code = 0) :
    \E start_code \in CodesIf(ld.ok /\ inp_exists /\ end_code = 0 /\ close_code = 0
                                /\ open_code = 0) :
    \E c \in {SimInitialize(Ctx(sim, engine, Fresh), Loaded(ld), inp_exists,
                            end_code, close_code, open_code, start_code)} :
        LET set == SetErrorMessage(Fresh, c.error)
        IN  /\ last_call' = "Initialize"
            /\ prev_outcome' = Outcome
            /\ config_read' = f
            /\ IF ~ld.ok THEN MappingLoadFailed(ld)
               ELSE /\ mapping' = Loaded(ld)
                    /\ mapping_loaded' = TRUE
                    /\ sim' = c.sim
                    /\ engine' = c.engine
                    /\ calls' = c.calls
                    /\ status' = IF c.ok THEN Success ELSE FailureWithMessage
                    /\ error_buffer' = IF c.ok THEN error_buffer ELSE set.buffer
                    /\ outargs' = IF c.ok THEN Fresh ELSE set.outargs
                    /\ exchanges' = IF c.sim.is_running /\ ~c.ok THEN exchanges ELSE 0
                    /\ inargs' = IF c.sim.is_running /\ ~c.ok THEN inargs ELSE NoInput

\* BridgeHandler::HandleInitialize.  f is the file SwmmGoldSimBridge.json at
\* the time of the call, inp_exists whether model.inp exists.
HandleInitialize ==
    \E f \in DOMAIN Configs :
    \E ld \in {LoadFromFile(Configs[f])} :
    \E end_code \in CodesIf(ld.ok /\ sim.is_running),
       close_code \in CodesIf(ld.ok /\ sim.is_running) :
    \E inp_exists \in IF ld.ok /\ end_code = 0 /\ close_code = 0 THEN BOOLEAN ELSE {TRUE} :
    \E open_code \in CodesIf(ld.ok /\ inp_exists /\ end_code = 0 /\ close_code = 0) :
    \E start_code \in CodesIf(ld.ok /\ inp_exists /\ end_code = 0 /\ close_code = 0
                                /\ open_code = 0) :
    \E c \in {SimInitialize(Ctx(sim, engine, Fresh), Loaded(ld), inp_exists,
                            end_code, close_code, open_code, start_code)} :
        LET set == SetErrorMessage(Fresh, c.error)
        IN  /\ last_call' = "Initialize"
            /\ prev_outcome' = Outcome
            /\ config_read' = f
            /\ IF ~ld.ok THEN MappingLoadFailed(ld)
               ELSE /\ mapping' = Loaded(ld)
                    /\ mapping_loaded' = TRUE
                    /\ sim' = c.sim
                    /\ engine' = c.engine
                    /\ calls' = c.calls
                    /\ status' = IF c.ok THEN Success ELSE FailureWithMessage
                    /\ error_buffer' = IF c.ok THEN error_buffer ELSE set.buffer
                    /\ outargs' = IF c.ok THEN Fresh ELSE set.outargs
                    /\ exchanges' = IF c.sim.is_running /\ ~c.ok THEN exchanges ELSE 0
                    /\ inargs' = IF c.sim.is_running /\ ~c.ok THEN inargs ELSE NoInput

\* A faulty CalculateFailureStatus that reports every failure with a message.
CalculateFailureStatus_AlwaysMessage(c) == FailureWithMessage

\* The status of a failed Calculate: plain Failure when the simulation is not
\* running and says so, a message otherwise.
CalculateFailureStatus(c) ==
    IF ~c.sim.is_running /\ c.error = NotRunningMsg THEN Failure ELSE FailureWithMessage

\* Whether a Calculate on the present state may read past the end of an
\* index vector.
ReadsPastEnd(m) ==
    \/ Len(m.inputs) > Len(sim.input_indices)
    \/ Len(m.outputs) > Len(sim.output_indices)

\* BridgeHandler::HandleCalculate with the input array in; step_fails is
\* whether the engine fails the step, should the call make one.
CalculateWith(in, step_fails) ==
    \E f \in IF mapping_loaded THEN {1} ELSE DOMAIN Configs :
    \E end_code \in CodesIf(sim.is_running /\ ~step_fails /\ engine.steps + 1 >= EndAfter),
       close_code \in CodesIf(sim.is_running /\ ~step_fails /\ engine.steps + 1 >= EndAfter) :
    \E ld \in {LoadFromFile(Configs[f])} :
    \E m \in {IF mapping_loaded THEN mapping ELSE Loaded(ld)} :
    \E g \in IF sim.is_running /\ ReadsPastEnd(m) THEN Garbage ELSE {0} :
    \E c \in {Calculate(Ctx(sim, engine, Fresh), m, in, step_fails, end_code, close_code, g)} :
            LET st == IF c.ok THEN Success ELSE CalculateFailureStatus(c)
                set == SetErrorMessage(c.outargs, c.error)
            IN  /\ last_call' = "Calculate"
                /\ prev_outcome' = Outcome
                /\ config_read' = (IF mapping_loaded THEN 0 ELSE f)
                /\ IF ~mapping_loaded /\ ~ld.ok THEN MappingLoadFailed(ld)
                   ELSE /\ mapping' = m
                        /\ mapping_loaded' = TRUE
                        /\ sim' = c.sim
                        /\ engine' = c.engine
                        /\ calls' = c.calls
                        /\ status' = st
                        /\ error_buffer' = IF st = FailureWithMessage THEN set.buffer
                                           ELSE error_buffer
                        /\ outargs' = IF st = FailureWithMessage THEN set.outargs ELSE c.outargs
                        /\ exchanges' = IF ~c.sim.is_running THEN 0
                                        ELSE IF exchanges < MaxExchanges THEN exchanges + 1
                                        ELSE exchanges
                        /\ inargs' = IF sim.is_running THEN in ELSE inargs

\* BridgeHandler::HandleCalculate, with the input array the driver passes.
HandleCalculate ==
    \E in \in IF sim.is_running THEN [Slots -> InVals] ELSE {NoInput},
       step_fails \in IF sim.is_running THEN BOOLEAN ELSE {FALSE} :
        CalculateWith(in, step_fails)

\* BridgeHandler::HandleReportVersion
HandleReportVersion ==
    /\ last_call' = "ReportVersion"
    /\ prev_outcome' = Outcome
    /\ config_read' = 0
    /\ outargs' = [Fresh EXCEPT ![0] = Num(VERSION)]
    /\ status' = Success
    /\ calls' = <<>>
    /\ UNCHANGED <<sim, mapping, mapping_loaded, engine, error_buffer, inargs, exchanges>>

\* A faulty HandleReportArguments that runs the loader on every call.
HandleReportArguments_AlwaysLoads ==
    \E f \in DOMAIN Configs :
    \E ld \in {LoadFromFile(Configs[f])} :
        /\ last_call' = "ReportArguments"
        /\ prev_outcome' = Outcome
        /\ config_read' = f
        /\ IF ~ld.ok THEN MappingLoadFailed(ld)
           ELSE /\ mapping' = Loaded(ld)
                /\ mapping_loaded' = TRUE
                /\ outargs' = [Fresh EXCEPT ![0] = Num(Len(ld.inputs)),
                                            ![1] = Num(Len(ld.outputs))]
                /\ status' = Success
                /\ calls' = <<>>
                /\ UNCHANGED <<sim, engine, error_buffer, inargs, exchanges>>

\* A faulty HandleReportArguments that tears the session down before it
\* answers.
HandleReportArguments_TearsDown ==
    \E c \in {Cleanup(Ctx(sim, engine, Fresh), 0, 0)} :
        /\ last_call' = "ReportArguments"
        /\ prev_outcome' = Outcome
        /\ config_read' = 0
        /\ mapping_loaded
        /\ sim' = c.sim
        /\ engine' = c.engine
        /\ calls' = c.calls
        /\ outargs' = [Fresh EXCEPT ![0] = Num(Len(mapping.inputs)),
                                    ![1] = Num(Len(mapping.outputs))]
        /\ status' = Success
        /\ exchanges' = 0
        /\ inargs' = NoInput
        /\ UNCHANGED <<mapping, mapping_loaded, error_buffer>>

\* BridgeHandler::HandleReportArguments
HandleReportArguments ==
    \E f \in IF mapping_loaded THEN {1} ELSE DOMAIN Configs :
    \E ld \in {LoadFromFile(Configs[f])} :
        LET m == IF mapping_loaded THEN mapping ELSE Loaded(ld)
        IN  /\ last_call' = "ReportArguments"
            /\ prev_outcome' = Outcome
            /\ config_read' = (IF mapping_loaded THEN 0 ELSE f)
            /\ IF ~mapping_loaded /\ ~ld.ok THEN MappingLoadFailed(ld)
               ELSE /\ mapping' = m
                    /\ mapping_loaded' = TRUE
                    /\ outargs' = [Fresh EXCEPT ![0] = Num(Len(m.inputs)),
                                                ![1] = Num(Len(m.outputs))]
                    /\ status' = Success
                    /\ calls' = <<>>
                    /\ UNCHANGED <<sim, engine, error_buffer, inargs, exchanges>>

\* BridgeHandler::HandleCleanup
HandleCleanup ==
    \E end_code \in CodesIf(sim.is_running), close_code \in CodesIf(sim.is_running) :
    \E c \in {Cleanup(Ctx(sim, engine, Fresh), end_code, close_code)} :
        LET set == SetErrorMessage(Fresh, c.sim.error_buffer)
        IN  /\ last_call' = "Cleanup"
            /\ prev_outcome' = Outcome
            /\ config_read' = 0
            /\ sim' = c.sim
            /\ engine' = c.engine
            /\ calls' = c.calls
            /\ status' = IF c.ok THEN Success ELSE FailureWithMessage
            /\ error_buffer' = IF c.ok THEN error_buffer ELSE set.buffer
            /\ outargs' = IF c.ok THEN Fresh ELSE set.outargs
            /\ exchanges' = 0
            /\ inargs' = NoInput
            /\ UNCHANGED <<mapping, mapping_loaded>>

\* BridgeHandler::HandleMethod, default case: an unknown method selector.
HandleUnknownMethod ==
    /\ last_call' = "Unknown"
    /\ prev_outcome' = Outcome
    /\ config_read' = 0
    /\ status' = Failure
    /\ calls' = <<>>
    /\ outargs' = Fresh
    /\ UNCHANGED <<sim, mapping, mapping_loaded, engine, error_buffer, inargs, exchanges>>

\* The exported SetSubcatchmentIndex(index).  The driver configures the index
\* between sessions, before the Initialize that reads it
\* (test_subcatchment_out_of_range.cpp).
SetSubcatchmentIndex ==
    \E i \in SubcatchIndices :
        /\ ~sim.is_running
        /\ i # sim.subcatchment_index
        /\ sim' = [sim EXCEPT !.subcatchment_index = i]
        /\ last_call' = "SetSubcatchmentIndex"
        /\ prev_outcome' = Outcome
        /\ config_read' = 0
        /\ calls' = <<>>
        /\ outargs' = Fresh
        /\ UNCHANGED <<mapping, mapping_loaded, engine, error_buffer, status, inargs, exchanges>>

Next ==
    \/ HandleInitialize
    \/ HandleCalculate
    \/ HandleReportVersion
    \/ HandleReportArguments
    \/ HandleCleanup
    \/ HandleUnknownMethod
    \/ SetSubcatchmentIndex

Spec == Init /\ [][Next]_vars

---------------------------------------------------------------------------
\* Properties of the driver calls.

\* The session is Closed: not running, the engine neither open nor started.
Closed == ~sim.is_running /\ ~engine.is_opened /\ ~engine.is_started

HasOp(cs, op) == \E i \in DOMAIN cs : cs[i].op = op

\* Every engine call of the log that returns a code returned 0.
NoEngineError(cs) ==
    \A i \in DOMAIN cs :
        cs[i].op \in {"swmm_open", "swmm_start", "swmm_step", "swmm_end", "swmm_close"}
            => cs[i].val = 0

\* The Calculate got past its input loop: it asked for the routing step.
AskedRouteStep(cs) == \E i \in DOMAIN cs : cs[i].ch = "swmm_ROUTESTEP"

\* The reads of output bindings in the log.
OutputReads(cs) ==
    {i \in DOMAIN cs : cs[i].op = "swmm_getValue" /\ cs[i].ch # "swmm_ROUTESTEP"}

\* Every slot an output record of m names holds the engine's value after n steps.
OutputsAtStep(out, m, n) ==
    \A i \in DOMAIN m.outputs :
        LET v == out[m.outputs[i].interface_index]
        IN  v.k = "eng" /\ v.n = n

SetValuesFrom(cs, m, in) ==
    \A i \in DOMAIN cs :
        cs[i].op = "swmm_setValue" =>
            \E j \in DOMAIN m.inputs :
                /\ m.inputs[j].name = cs[i].name
                /\ cs[i].val = in[m.inputs[j].interface_index]

\* The input records of m that are applied to the engine.
AppliedInputs(m) == {j \in DOMAIN m.inputs : m.inputs[j].object_type # "SYSTEM"}

C3_FailedInitializeCloses ==
    (last_call = "Initialize" /\ status # Success) => Closed

\* The log opens the engine only when it is closed (open: whether it is open
\* before call i).
RECURSIVE OpensOnlyWhenClosed(_, _, _)
OpensOnlyWhenClosed(cs, i, open) ==
    IF i > Len(cs) THEN TRUE
    ELSE IF cs[i].op = "swmm_open"
         THEN ~open /\ OpensOnlyWhenClosed(cs, i + 1, cs[i].val = 0)
         ELSE IF cs[i].op = "swmm_close" THEN OpensOnlyWhenClosed(cs, i + 1, FALSE)
         ELSE OpensOnlyWhenClosed(cs, i + 1, open)

\* The messages that say the configuration is not valid.
ConfigErrorKinds ==
    {"MappingFileNotFound", "MappingFileEmpty", "InvalidMappingFormat", "MissingField",
     "UnsupportedVersion", "InputCountMismatch", "OutputCountMismatch",
     "UnknownInputObjectType", "UnknownOutputObjectType", "ElementNotFound",
     "InputFileNotFound", "SubcatchmentIndexOutOfRange"}

\* C4: an Initialize on a running session first ends and closes the engine,
\* never opens an open engine, and returns Success unless the configuration
\* is not valid or the engine reports an error.
C4_ReinitializeTearsDownFirst ==
    [][(last_call' = "Initialize" /\ sim.is_running) =>
          /\ Len(calls') >= 2
          /\ calls'[1].op = "swmm_end" /\ calls'[2].op = "swmm_close"
          /\ OpensOnlyWhenClosed(calls', 1, engine.is_opened)
          /\ \/ status' = Success
             \/ ~NoEngineError(calls')
             \/ error_buffer'.kind \in ConfigErrorKinds]_vars

\* The messages of a mapping file that could not be loaded.
LoadErrorKinds ==
    {"MappingFileNotFound", "MappingFileEmpty", "InvalidMappingFormat", "MissingField",
     "UnsupportedVersion", "InputCountMismatch", "OutputCountMismatch"}

\* C5 as stated: a Calculate on a session that is not running returns the
\* plain Failure with no message, makes no engine call and leaves the session
\* as it was.
C5_NotRunningPlainFailure ==
    [][(last_call' = "Calculate" /\ ~sim.is_running) =>
          /\ status' = Failure
          /\ outargs' = Fresh /\ error_buffer' = error_buffer
          /\ calls' = <<>>
          /\ sim' = sim /\ engine' = engine]_vars

\* C5, amended: a Calculate on a session that is not running returns the plain
\* Failure with no message when the mapping is loaded or loads in this call,
\* and FailureWithMessage with the loader's message when it does not load; in
\* both cases it makes no engine call and leaves the session as it was.
C5_NotRunningFailure ==
    [][(last_call' = "Calculate" /\ ~sim.is_running) =>
          /\ status' = (IF mapping_loaded' THEN Failure ELSE FailureWithMessage)
          /\ (status' = Failure => outargs' = Fresh /\ error_buffer' = error_buffer)
          /\ (status' = FailureWithMessage =>
                 outargs'[0] = BufferAddr /\ error_buffer'.kind \in LoadErrorKinds)
          /\ calls' = <<>>
          /\ sim' = sim /\ engine' = engine]_vars

C5_Witness ==
    /\ last_call = "Calculate" /\ status = Failure
    /\ ~sim.is_running /\ calls = <<>> /\ outargs = Fresh

\* C6: a Cleanup on a session that is not running returns Success, makes no
\* engine call and leaves the session Closed.
C6_CleanupIdempotent ==
    [][(last_call' = "Cleanup" /\ ~sim.is_running) =>
          /\ status' = Success
          /\ calls' = <<>>
          /\ engine' = engine
          /\ Closed']_vars

C6_Witness ==
    last_call = "Cleanup" /\ status = Success /\ calls = <<>> /\ Closed

\* C7: a Cleanup on a running session calls swmm_end and then swmm_close, once
\* each, whatever swmm_end returns, and leaves the session Closed whatever the
\* two return.
C7_CleanupEndsThenCloses ==
    [][(last_call' = "Cleanup" /\ sim.is_running) =>
          /\ Ops(calls') = <<"swmm_end", "swmm_close">>
          /\ Closed']_vars

C7_Witness ==
    /\ last_call = "Cleanup" /\ Ops(calls) = <<"swmm_end", "swmm_close">>
    /\ calls[1].val # 0
    /\ status = FailureWithMessage /\ Closed

\* C8: a Calculate whose step reports normal termination ends and then closes
\* the engine, leaves the session Closed and returns Success; the Calculate
\* after it returns the plain Failure.
C8_TerminationTearsDown ==
    /\ Outcome = "ended" =>
          /\ Len(calls) >= 3
          /\ SubSeq(Ops(calls), Len(calls) - 2, Len(calls))
                = <<"swmm_step", "swmm_end", "swmm_close">>
          /\ Count(calls, "swmm_end") = 1 /\ Count(calls, "swmm_close") = 1
          /\ Closed
          /\ status = Success
    /\ (last_call = "Calculate" /\ prev_outcome = "ended") =>
          status = Failure /\ calls = <<>> /\ Closed

C8_Witness ==
    /\ last_call = "Calculate" /\ prev_outcome = "ended"
    /\ status = Failure /\ Closed

\* C9: a Calculate whose step reports an error returns FailureWithMessage,
\* reads no output binding into the output array, keeps the recorded time of
\* the last step, calls neither swmm_end nor swmm_close, and leaves the
\* session running.
C9_StepErrorMutatesNothing ==
    [][(last_call' = "Calculate" /\ Outcome' = "step_error") =>
          /\ status' = FailureWithMessage
          /\ error_buffer' = swmm_getError
          /\ OutputReads(calls') = {}
          /\ \A s \in Slots \ {0} : outargs'[s] = Unset
          /\ sim'.last_swmm_time = sim.last_swmm_time
          /\ sim'.input_indices = sim.input_indices
          /\ sim'.output_indices = sim.output_indices
          /\ Count(calls', "swmm_end") = 0 /\ Count(calls', "swmm_close") = 0
          /\ sim'.is_running /\ engine'.is_opened /\ engine'.is_started
          /\ engine'.steps = engine.steps]_vars

C9_Witness ==
    /\ Outcome = "step_error" /\ status = FailureWithMessage
    /\ sim.is_running /\ exchanges = 2

\* C10: the Cleanup after a Calculate that failed with a step error calls
\* swmm_end and swmm_close, leaves the session Closed, and returns Success when
\* the two report no error.
C10_CleanupAfterStepError ==
    (last_call = "Cleanup" /\ prev_outcome = "step_error") =>
        /\ Ops(calls) = <<"swmm_end", "swmm_close">>
        /\ Closed
        /\ (NoEngineError(calls) => status = Success)

C10_Witness ==
    /\ last_call = "Cleanup" /\ prev_outcome = "step_error"
    /\ NoEngineError(calls) /\ status = Success /\ Closed

\* The codes the swmm_step calls of the log returned.
StepCodes(cs) == {cs[i].val : i \in {j \in DOMAIN cs : cs[j].op = "swmm_step"}}

Resolved(recs, indices, i) ==
    /\ i \in DOMAIN indices
    /\ (recs[i].object_type = "SYSTEM" => indices[i] = -1)
    /\ (recs[i].object_type # "SYSTEM" => indices[i] >= 0)

\* C12: while the session is running every record of the mapping the bridge
\* holds has a resolved handle, >= 0 unless the record is informational.
C12_BindingsResolvedWhileRunning ==
    sim.is_running =>
        /\ \A i \in DOMAIN mapping.inputs : Resolved(mapping.inputs, sim.input_indices, i)
        /\ \A i \in DOMAIN mapping.outputs : Resolved(mapping.outputs, sim.output_indices, i)


---------------------------------------------------------------------------
\* Name resolution.

\* The records of a mapping in resolution order: inputs, then outputs.
Records(m) ==
    [i \in 1..(Len(m.inputs) + Len(m.outputs)) |->
        IF i <= Len(m.inputs) THEN [side |-> "input", rec |-> m.inputs[i]]
        ELSE [side |-> "output", rec |-> m.outputs[i - Len(m.inputs)]]]

\* The engine object type that ValidateMapping gives a record ("" = none).
ObjType(x) ==
    IF x.side = "input" THEN InputObjType(x.rec.object_type)
    ELSE OutputObjType(x.rec.object_type)

\* ValidateMapping skips the record: an input on the SYSTEM channel.
Skipped(x) == x.side = "input" /\ x.rec.object_type = "SYSTEM"

\* ValidateMapping cannot resolve the record: its tag has no engine object
\* type, or the engine does not know its name.
Unresolvable(x) ==
    /\ ~Skipped(x)
    /\ \/ ObjType(x) = ""
       \/ swmm_getIndex(ObjType(x), x.rec.name) < 0

\* The position of the first unresolvable record (0 = every record resolves).
FirstUnresolvable(m) ==
    LET bad == {i \in DOMAIN Records(m) : Unresolvable(Records(m)[i])}
    IN  IF bad = {} THEN 0 ELSE CHOOSE i \in bad : \A j \in bad : i <= j

\* The name lookups that resolution makes up to record k, k included: one for
\* each record that is not skipped and whose tag has an engine object type.
LookupsUpTo(m, k) ==
    Cardinality({i \in 1..k : ~Skipped(Records(m)[i]) /\ ObjType(Records(m)[i]) # ""})

\* The message kinds of a record that failed to resolve.
ResolutionErrorKinds ==
    {"UnknownInputObjectType", "UnknownOutputObjectType", "ElementNotFound"}

\* The last Initialize failed at name resolution.
ResolutionFailed ==
    /\ last_call = "Initialize"
    /\ status = FailureWithMessage
    /\ HasOp(calls, "swmm_open")
    /\ error_buffer.kind \in ResolutionErrorKinds

\* C13: name resolution is fail-fast.  When Initialize fails at the first
\* record (inputs in record order, then outputs) that cannot be resolved, the
\* engine was asked for no name of a later record, start was never invoked,
\* the engine's last call is close, and the session is not running.
C13_ResolutionFailFast ==
    ResolutionFailed =>
        /\ FirstUnresolvable(mapping) > 0
        /\ Count(calls, "swmm_getIndex") = LookupsUpTo(mapping, FirstUnresolvable(mapping))
        /\ ~HasOp(calls, "swmm_start")
        /\ calls[Len(calls)] = Op("swmm_close", 0)
        /\ Closed

\* C13 happens: resolution failed at a record that has records after it, some
\* of which would have been looked up.
C13_Witness ==
    /\ ResolutionFailed
    /\ LookupsUpTo(mapping, Len(Records(mapping)))
           > LookupsUpTo(mapping, FirstUnresolvable(mapping))
    /\ Closed


---------------------------------------------------------------------------
\* Property combinations.

\* The input combinations that the "Unknown input property combination"
\* message lists as valid.
AcceptedInputPairs ==
    {<<"GAGE", "RAINFALL">>, <<"PUMP", "SETTING">>, <<"ORIFICE", "SETTING">>,
     <<"WEIR", "SETTING">>, <<"NODE", "LATFLOW">>}

\* The type tags of the accepted input combinations.
AcceptedInputTags == {p[1] : p \in AcceptedInputPairs}

\* The input records, by position, that have the tag of an accepted
\* combination and a property that makes no accepted combination with it.
RejectedInputs(m) ==
    {i \in DOMAIN m.inputs :
        /\ m.inputs[i].object_type \in AcceptedInputTags
        /\ <<m.inputs[i].object_type, m.inputs[i].property>> \notin AcceptedInputPairs}

\* The first input record with a combination that is not accepted.
FirstRejectedInput(m) == CHOOSE i \in RejectedInputs(m) : \A j \in RejectedInputs(m) : i <= j

\* The last Initialize opened the engine and got through name resolution.
ResolutionSucceeded ==
    /\ last_call = "Initialize"
    /\ HasOp(calls, "swmm_getCount")
    /\ Len(sim.input_indices) = Len(mapping.inputs)
    /\ Len(sim.output_indices) = Len(mapping.outputs)

---------------------------------------------------------------------------
\* Type tags.

\* The type tags that occur in configuration files.
TypeTags ==
    {"SYSTEM", "GAGE", "PUMP", "ORIFICE", "WEIR", "NODE", "STORAGE", "OUTFALL",
     "SUBCATCH", "CONDUIT", "LID"}

\* The tags that the text of an unknown-object-type message lists after
\* "Supported types are".
SupportedTypesListed(kind) ==
    CASE kind = "UnknownInputObjectType" -> {"GAGE", "PUMP", "ORIFICE", "WEIR", "NODE"}
      [] kind = "UnknownOutputObjectType" ->
             {"STORAGE", "OUTFALL", "ORIFICE", "WEIR", "SUBCATCH"}
      [] OTHER -> {}

\* The unknown-object-type message of a record's side.
UnknownTypeKind(x) ==
    IF x.side = "input" THEN "UnknownInputObjectType" ELSE "UnknownOutputObjectType"

\* The record's tag is not one of the supported tags of its side.
UnsupportedTag(x) ==
    ~Skipped(x) /\ x.rec.object_type \notin SupportedTypesListed(UnknownTypeKind(x))

\* The position of the first record with an unsupported tag (0 = none).
FirstUnsupported(m) ==
    LET bad == {i \in DOMAIN Records(m) : UnsupportedTag(Records(m)[i])}
    IN  IF bad = {} THEN 0 ELSE CHOOSE i \in bad : \A j \in bad : i <= j

\* The delivered text is the whole message: nothing was cut off.
Whole(msg) == msg.len = FixedLen(msg.kind) + SumLen(msg.ctx, 1)

---------------------------------------------------------------------------
\* Unknown element names.

\* The record has a supported tag and a name that the engine's lookup does
\* not know.
UnknownName(x) ==
    /\ ~Skipped(x)
    /\ ObjType(x) # ""
    /\ swmm_getIndex(ObjType(x), x.rec.name) < 0

\* The last Initialize opened the engine and, resolving the records in order,
\* came to a record with an unknown name.
ReachedUnknownName ==
    /\ last_call = "Initialize"
    /\ \E i \in DOMAIN calls : calls[i] = Op("swmm_open", 0)
    /\ FirstUnresolvable(mapping) > 0
    /\ UnknownName(Records(mapping)[FirstUnresolvable(mapping)])

---------------------------------------------------------------------------
\* Compound names.

\* The two parts of a compound name "A/B" (<<>> for a name with no separator).
CompoundParts(name) == IF name = "S1/LID1" THEN <<"S1", "LID1">> ELSE <<>>

\* The sub-objects (LID units) of a subcatchment of the loaded model, as the
\* engine's swmm_getLidUCount and swmm_getLidUName report them.
LidUnits(container) == IF container = "S1" THEN {"LID1"} ELSE {}

\* The record has the container tag and names a sub-object that exists:
\* container A is a subcatchment of the engine and has a unit named B.
ExistingCompound(x) ==
    /\ x.rec.object_type = "LID"
    /\ CompoundParts(x.rec.name) # <<>>
    /\ swmm_getIndex("swmm_SUBCATCH", CompoundParts(x.rec.name)[1]) >= 0
    /\ CompoundParts(x.rec.name)[2] \in LidUnits(CompoundParts(x.rec.name)[1])

\* C17: a compound name "A/B" under the container tag LID resolves during
\* Initialize when container A exists and has a sub-object B.  When the engine
\* opened and every record of the mapping either resolves or is such a
\* compound name, name resolution succeeds.
C17_CompoundNameResolves ==
    (/\ last_call = "Initialize"
     /\ \E i \in DOMAIN calls : calls[i] = Op("swmm_open", 0)
     /\ \E i \in DOMAIN Records(mapping) : ExistingCompound(Records(mapping)[i])
     /\ \A i \in DOMAIN Records(mapping) :
           ExistingCompound(Records(mapping)[i]) \/ ~Unresolvable(Records(mapping)[i]))
        => ResolutionSucceeded


---------------------------------------------------------------------------
\* The form of the messages.

\* The messages written in the three-part form "Error: ... / Context: ... /
\* Suggestion: ...".
ThreePartKinds ==
    {"MappingFileNotFound", "MappingFileEmpty", "InvalidMappingFormat",
     "UnsupportedVersion", "InputCountMismatch", "OutputCountMismatch",
     "InputFileNotFound", "SubcatchmentIndexOutOfRange",
     "UnknownInputObjectType", "UnknownOutputObjectType", "ElementNotFound",
     "UnknownInputProperty", "UnknownOutputProperty", "InvalidElementHandle"}

\* The messages that are one plain sentence, the engine's text among them;
\* "" is the empty text.
PlainKinds == {"MissingField", "FailedToCleanup", "EngineError", ""}

\* The log has a call of one of ops that returned an error code.
FailedOp(cs, ops) == \E i \in DOMAIN cs : cs[i].op \in ops /\ cs[i].val # 0

\* The last step was a call of SwmmGoldSimBridge, and status is its reply.
Replied ==
    last_call \in {"Initialize", "Calculate", "ReportVersion", "ReportArguments",
                   "Cleanup", "Unknown"}

---------------------------------------------------------------------------
\* The text of an engine error.

EngineOps == {"swmm_open", "swmm_start", "swmm_step", "swmm_end", "swmm_close"}

\* C19: a driver call that fails after the engine returned an error code from
\* open, start, step, end or close returns FailureWithMessage, and the message
\* delivered is the text that the call obtained from swmm_getError after that
\* error.
C19_EngineErrorTextDelivered ==
    (Replied /\ status # Success /\ FailedOp(calls, EngineOps)) =>
        /\ status = FailureWithMessage
        /\ outargs[0] = BufferAddr
        /\ error_buffer = swmm_getError
        /\ \E i, j \in DOMAIN calls :
              /\ i < j
              /\ calls[i].op \in EngineOps /\ calls[i].val # 0
              /\ calls[j].op = "swmm_getError"


---------------------------------------------------------------------------
\* The message buffer.

\* The slots of an output array that hold the address of the message buffer.
AddressSlots(out) == {i \in DOMAIN out : out[i] = BufferAddr}

\* The number of characters of a message before SetErrorMessage cuts it.
FullLen(msg) == FixedLen(msg.kind) + SumLen(msg.ctx, 1)

\* C20: after a call that returns FailureWithMessage the first output slot,
\* and no other, holds the address of the one message buffer, and the buffer
\* holds the first 199 characters of the failure's message, all of it when it
\* is no longer than that.  A call that returns Success or the plain Failure
\* writes no address into the output array and leaves the buffer as it was, so
\* the buffer changes only by the next failing call overwriting it.
C20_MessageBuffer ==
    [][Replied' =>
          IF status' = FailureWithMessage
          THEN /\ AddressSlots(outargs') = {0}
               /\ error_buffer'.len <= ERROR_BUFFER_SIZE - 1
               /\ error_buffer'.len = IF FullLen(error_buffer') <= ERROR_BUFFER_SIZE - 1
                                      THEN FullLen(error_buffer')
                                      ELSE ERROR_BUFFER_SIZE - 1
          ELSE /\ AddressSlots(outargs') = {}
               /\ error_buffer' = error_buffer]_vars

\* C20 happens: a failing call left in the buffer a message of 205 characters
\* cut to its first 199.
C20_Witness ==
    /\ Replied
    /\ status = FailureWithMessage
    /\ outargs[0] = BufferAddr
    /\ error_buffer.kind = "UnknownInputProperty"
    /\ FullLen(error_buffer) = 205
    /\ error_buffer.len = 199


---------------------------------------------------------------------------
\* ReportArguments.

\* The pairs (input records, output records) of the configurations that load
\* successfully.
LoadedCounts ==
    {<<Len(LoadFromFile(Configs[f]).inputs), Len(LoadFromFile(Configs[f]).outputs)>> :
        f \in {g \in DOMAIN Configs : LoadFromFile(Configs[g]).ok}}

\* C21: whenever ReportArguments returns Success, output slots 0 and 1 hold the
\* input and output record counts of a configuration that loaded successfully;
\* a load that failed, in this call or an earlier one, never contributes the
\* counts of a Success reply.
C21_CountsOfLoadedMapping ==
    (last_call = "ReportArguments" /\ status = Success) =>
        /\ outargs[0].k = "num" /\ outargs[1].k = "num"
        /\ <<outargs[0].n, outargs[1].n>> \in LoadedCounts


---------------------------------------------------------------------------
\* The queries and the engine.

\* C22: ReportVersion and ReportArguments never touch the engine lifecycle.
\* In every state, and whether the call succeeds or fails, it makes no engine
\* call and leaves the simulation object (running flag, resolved handles,
\* recorded time of the last step) and the engine as they were; ReportVersion
\* always returns Success.
C22_QueriesLeaveEngineAlone ==
    [][(last_call' \in {"ReportVersion", "ReportArguments"}) =>
          /\ calls' = <<>>
          /\ sim' = sim
          /\ engine' = engine
          /\ (last_call' = "ReportVersion" => status' = Success)]_vars

\* C22 happens: ReportArguments answered on a running session that has
\* stepped, and the session is as it was.
C22_Witness ==
    /\ last_call = "ReportArguments"
    /\ status = Success
    /\ sim.is_running /\ engine.is_started /\ engine.steps >= 1
    /\ sim.last_swmm_time >= 0
    /\ calls = <<>>


---------------------------------------------------------------------------
\* The mapping that a session is bound to.

\* The handles that ValidateMapping stores for the records of one side of a
\* mapping m: -1 for a record it skips, the engine's handle otherwise.
Handles(m, side) ==
    LET recs == IF side = "input" THEN m.inputs ELSE m.outputs
    IN  [i \in DOMAIN recs |->
            LET x == [side |-> side, rec |-> recs[i]]
            IN  IF Skipped(x) THEN -1 ELSE swmm_getIndex(ObjType(x), x.rec.name)]

\* The bridge is bound to the file that the last call handed to the loader: the
\* file loads, the mapping held is its records, and the handles stored are
\* those of its records.
BoundToConfigRead ==
    /\ config_read \in DOMAIN Configs
    /\ LoadFromFile(Configs[config_read]).ok
    /\ mapping_loaded
    /\ mapping = Loaded(LoadFromFile(Configs[config_read]))
    /\ sim.input_indices = Handles(mapping, "input")
    /\ sim.output_indices = Handles(mapping, "output")

\* The engine calls of a Calculate are made for records of the mapping m with
\* the handles stored in s: each swmm_setValue for an input record and each
\* read of an output for an output record, by name, channel and handle.
UsesBindings(cs, m, s) ==
    \A i \in DOMAIN cs :
        /\ cs[i].op = "swmm_setValue" =>
              \E j \in DOMAIN m.inputs :
                  /\ cs[i].name = m.inputs[j].name
                  /\ cs[i].ch = InputProperty(m.inputs[j].object_type, m.inputs[j].property)
                  /\ j \in DOMAIN s.input_indices => cs[i].idx = s.input_indices[j]
        /\ i \in OutputReads(cs) =>
              \E j \in DOMAIN m.outputs :
                  /\ cs[i].name = m.outputs[j].name
                  /\ cs[i].ch = OutputProperty(m.outputs[j].object_type, m.outputs[j].property)
                  /\ j \in DOMAIN s.output_indices => cs[i].idx = s.output_indices[j]

---------------------------------------------------------------------------
\* The cached mapping.

\* The output array of a ReportArguments that returns the counts of m.
CountsOf(m) == [Fresh EXCEPT ![0] = Num(Len(m.inputs)), ![1] = Num(Len(m.outputs))]

\* C24: once a ReportArguments has returned Success, every later
\* ReportArguments with no Initialize in between returns Success with the same
\* two counts and without running the loader, whatever the file is by then.
\* A ReportArguments that returns Success leaves a mapping cached and returns
\* its counts; no call other than Initialize runs the loader on a cached
\* mapping or changes its counts; and a ReportArguments on a cached mapping
\* returns Success with its counts, so one that directly follows a successful
\* one returns the same output array.
C24_ReportArgumentsCached ==
    [][/\ (last_call' = "ReportArguments" /\ status' = Success) =>
             mapping_loaded' /\ outargs' = CountsOf(mapping')
       /\ (last_call' # "Initialize" /\ mapping_loaded) =>
             /\ config_read' = 0
             /\ mapping_loaded'
             /\ CountsOf(mapping') = CountsOf(mapping)
       /\ (last_call' = "ReportArguments" /\ mapping_loaded) =>
             status' = Success /\ outargs' = CountsOf(mapping)
       /\ (last_call = "ReportArguments" /\ status = Success
              /\ last_call' = "ReportArguments") =>
             status' = Success /\ outargs' = outargs /\ config_read' = 0]_vars

\* C24 happens: ReportArguments answered from the cache, without running the
\* loader, in a bridge where no Initialize ever got to the engine and no call
\* ever failed with a message.
C24_Witness ==
    /\ last_call = "ReportArguments"
    /\ status = Success
    /\ config_read = 0
    /\ mapping_loaded
    /\ outargs = CountsOf(mapping)
    /\ mapping.inputs # <<>>
    /\ sim.input_indices = <<>> /\ ~engine.is_opened
    /\ error_buffer = NoMsg


---------------------------------------------------------------------------
\* Declared and parsed record counts.

\* The file gets as far as its record arrays, every record parses, and the
\* number of records parsed differs from the declared count on some side.
CountMismatch(f) ==
    /\ f.exists /\ ~f.empty /\ f.is_object /\ f.version = "1.0" /\ f.lacks = ""
    /\ ParseArray(f.inputs, 1, <<>>).ok /\ ParseArray(f.outputs, 1, <<>>).ok
    /\ \/ Len(f.inputs) # f.input_count
       \/ Len(f.outputs) # f.output_count

\* The messages whose text has the word "mismatch".
MismatchKinds == {"InputCountMismatch", "OutputCountMismatch"}

\* C25: the loader succeeds only if the number of input records parsed equals
\* the declared input_count and the number of output records parsed equals the
\* declared output_count.  On a mismatch it fails with the count-mismatch
\* message, and the call that ran it (Initialize, or the on-demand load of
\* ReportArguments or Calculate) returns FailureWithMessage delivering that
\* message whole.
C25_CountMismatchFailsLoad ==
    /\ \A i \in DOMAIN Configs :
          LET f == Configs[i]
              ld == LoadFromFile(f)
          IN  /\ ld.ok => /\ Len(ld.inputs) = f.input_count
                          /\ Len(ld.outputs) = f.output_count
              /\ CountMismatch(f) =>
                    /\ ~ld.ok
                    /\ ld.error.kind = (IF Len(f.inputs) # f.input_count
                                        THEN "InputCountMismatch" ELSE "OutputCountMismatch")
                    /\ ld.error.three_part
    /\ (config_read # 0 /\ CountMismatch(Configs[config_read])) =>
          /\ status = FailureWithMessage
          /\ outargs[0] = BufferAddr
          /\ error_buffer = LoadFromFile(Configs[config_read]).error
          /\ error_buffer.kind \in MismatchKinds
          /\ Whole(error_buffer)
          /\ calls = <<>>

\* C25 happens: a call ran the loader on the file that lists two output
\* records and declares three, and failed with the output-count message.
C25_Witness ==
    /\ config_read # 0
    /\ Configs[config_read] = CfgOutCount
    /\ status = FailureWithMessage
    /\ error_buffer.kind = "OutputCountMismatch"
    /\ error_buffer.ctx = <<"3", "2">>


---------------------------------------------------------------------------
\* The informational SYSTEM channel.

\* The input records of m, by position, on the SYSTEM channel.
SystemInputs(m) == {j \in DOMAIN m.inputs : m.inputs[j].object_type = "SYSTEM"}

\* The calls of the log, by position, that name the element of a SYSTEM input
\* record of m.
CallsForSystem(cs, m) ==
    {i \in DOMAIN cs : \E j \in SystemInputs(m) : cs[i].name = m.inputs[j].name}

\* C26: for an input record on the SYSTEM channel Initialize makes no name
\* lookup, and the handle it stores for the record is the sentinel -1; no
\* Calculate calls swmm_setValue for the record, whatever value the driver
\* supplies in its slot.  The name lookups of an Initialize are at most one per
\* record that is not on the SYSTEM channel.
C26_SystemChannelNeedsNoHandle ==
    /\ (last_call \in {"Initialize", "Calculate"}) => CallsForSystem(calls, mapping) = {}
    /\ (last_call = "Initialize") =>
          Count(calls, "swmm_getIndex")
              <= Len(Records(mapping)) - Cardinality(SystemInputs(mapping))
    /\ ResolutionSucceeded =>
          \A j \in SystemInputs(mapping) : sim.input_indices[j] = -1
    /\ (last_call = "Calculate") =>
          Count(calls, "swmm_setValue") <= Cardinality(AppliedInputs(mapping))

\* C26 happens: a Calculate on a session whose SYSTEM record sits in slot 1
\* was given a nonzero value there, set the other input and stepped, and made
\* no engine call for the SYSTEM record, whose stored handle is -1.
C26_Witness ==
    /\ last_call = "Calculate"
    /\ status = Success
    /\ sim.is_running
    /\ mapping = Loaded(LoadFromFile(CfgB))
    /\ inargs[1] = 199
    /\ sim.input_indices = <<0, -1>>
    /\ Count(calls, "swmm_setValue") = 1
    /\ HasOp(calls, "swmm_step")
    /\ CallsForSystem(calls, mapping) = {}


---------------------------------------------------------------------------
\* Name lookups and the engine's lifecycle.

\* The name lookups of the log, by position.
Lookups(cs) == {j \in DOMAIN cs : cs[j].op = "swmm_getIndex"}

\* Before call j the log has a call of op that returned 0 and, after it, no
\* swmm_close.
FollowsSuccessful(cs, j, op) ==
    \E i \in 1..(j - 1) :
        /\ cs[i] = Op(op, 0)
        /\ \A k \in (i + 1)..(j - 1) : cs[k].op # "swmm_close"

---------------------------------------------------------------------------
\* The state of a new session.

\* A session is running and no Calculate has been made on it yet.
NewSession == sim.is_running /\ exchanges = 0

---------------------------------------------------------------------------
\* The message of a rejected property.

\* The number of characters of a message of Calculate's input loop up to the
\* end of its third label: "Error: ...", "Context: ..." with the strings
\* spliced in, and "Suggestion:".
LabelsEnd(msg) ==
    CASE msg.kind = "UnknownInputProperty" -> 79 + SumLen(msg.ctx, 1)
      [] msg.kind = "InvalidElementHandle" -> 71 + SumLen(msg.ctx, 1)

\* C29: a Calculate on a mapping with an input record that has an accepted
\* tag and a property outside the accepted combinations does not step the
\* engine and does not return Success.  On a running session it returns
\* FailureWithMessage, and the text delivered is a three-part message of the
\* input loop whose labels "Error:", "Context:" and "Suggestion:" all lie
\* within the part that fits the buffer.
C29_UnknownPropertyFailsExchange ==
    (last_call = "Calculate" /\ RejectedInputs(mapping) # {}) =>
        /\ status # Success
        /\ ~HasOp(calls, "swmm_step")
        /\ ~AskedRouteStep(calls)
        /\ sim.is_running =>
              /\ status = FailureWithMessage
              /\ outargs[0] = BufferAddr
              /\ error_buffer.kind \in {"UnknownInputProperty", "InvalidElementHandle"}
              /\ error_buffer.three_part
              /\ LabelsEnd(error_buffer) <= error_buffer.len

\* C29 happens: the second Calculate of a running session failed on the record
\* PUMP.BADPROP; the message was cut, and its three labels were delivered.
C29_Witness ==
    /\ last_call = "Calculate"
    /\ exchanges = 2
    /\ sim.is_running
    /\ status = FailureWithMessage
    /\ error_buffer.kind = "UnknownInputProperty"
    /\ error_buffer.ctx[2] = "BADPROP"
    /\ LabelsEnd(error_buffer) <= error_buffer.len
    /\ error_buffer.len < FullLen(error_buffer)
    /\ engine.steps = 0


---------------------------------------------------------------------------
\* The subcatchment index.

\* The configured subcatchment index is one of the engine's subcatchments.
IndexInRange ==
    0 <= sim.subcatchment_index /\ sim.subcatchment_index < swmm_getCount("swmm_SUBCATCH")

\* The last Initialize got as far as comparing the index with the count.
ReachedIndexCheck == last_call = "Initialize" /\ HasOp(calls, "swmm_getCount")

---------------------------------------------------------------------------
\* The engine and the session.

\* C31: at the return of every driver call the engine is open if and only if
\* the session is running, and it is started if and only if the session is
\* running: no call leaves the engine opened or started with the session not
\* running, and none leaves the session running with the engine closed.
C31_EngineOpenIffRunning ==
    /\ engine.is_opened <=> sim.is_running
    /\ engine.is_started <=> sim.is_running

\* C31 happens: an Initialize opened the engine, swmm_start failed, and the
\* call returned with the engine closed and the session not running.
C31_Witness ==
    /\ last_call = "Initialize"
    /\ \E i \in DOMAIN calls : calls[i] = Op("swmm_open", 0)
    /\ FailedOp(calls, {"swmm_start"})
    /\ status = FailureWithMessage
    /\ Closed


---------------------------------------------------------------------------
\* The handle lists and the mapping held.

\* C32: whenever the session is running, the list of resolved input handles
\* has exactly one entry per input record of the mapping the bridge holds, and
\* the list of output handles one per output record, so that no Calculate
\* reads a handle past the end of a list.
C32_HandleListsMatchMapping ==
    sim.is_running =>
        /\ Len(sim.input_indices) = Len(mapping.inputs)
        /\ Len(sim.output_indices) = Len(mapping.outputs)
        /\ ~ReadsPastEnd(mapping)


---------------------------------------------------------------------------
\* The engine's lifecycle.

\* The engine calls made on a started engine only, besides swmm_end.
NeedStarted == {"swmm_step", "swmm_setValue", "swmm_getValue"}

\* The calls of the log from call i on respect the lifecycle of an engine that
\* is opened / started as given before call i.
RECURSIVE Lifecycle(_, _, _, _)
Lifecycle(cs, i, opened, started) ==
    IF i > Len(cs) THEN TRUE
    ELSE LET x == cs[i]
         IN  CASE x.op = "swmm_open" ->
                    ~opened /\ ~started /\ Lifecycle(cs, i + 1, x.val = 0, FALSE)
               [] x.op = "swmm_start" ->
                    opened /\ ~started /\ Lifecycle(cs, i + 1, opened, x.val = 0)
               [] x.op = "swmm_end" ->
                    opened /\ started /\ Lifecycle(cs, i + 1, opened, FALSE)
               [] x.op = "swmm_close" ->
                    opened /\ Lifecycle(cs, i + 1, FALSE, FALSE)
               [] x.op \in NeedStarted ->
                    opened /\ started /\ Lifecycle(cs, i + 1, opened, started)
               [] OTHER -> Lifecycle(cs, i + 1, opened, started)

\* C33: over any sequence of driver calls the engine calls respect the
\* engine's lifecycle.  open is issued only on a closed engine; start only on
\* an engine opened successfully and not closed since; step, setValue and
\* getValue only on an engine started successfully and not ended since; end
\* only on a started engine and close only on an open one, so that neither is
\* issued twice for the same open.
C33_EngineLifecycle ==
    [][Lifecycle(calls', 1, engine.is_opened, engine.is_started)]_vars

\* C33 happens: an Initialize on a running session ended and closed the
\* engine, opened and started it again, and the session is running.
C33_Witness ==
    /\ last_call = "Initialize" /\ status = Success /\ sim.is_running
    /\ Len(calls) >= 4
    /\ calls[1] = Op("swmm_end", 0) /\ calls[2] = Op("swmm_close", 0)
    /\ calls[3] = Op("swmm_open", 0)
    /\ calls[Len(calls)] = Op("swmm_start", 0)


---------------------------------------------------------------------------
\* The stepping decision.

\* The elapsed time t lies at least 0.99 routing steps after the recorded time
\* of the last step.
Due(t) == (t - sim.last_swmm_time) * 100 >= RouteStep * 99

\* C34 as stated: a Calculate on a running session calls swmm_step once when
\* it is the first of the session or a step time has been recorded and the
\* elapsed time is due, and not at all otherwise.
C34_StepsWhenFirstOrDue ==
    [][(last_call' = "Calculate" /\ sim.is_running) =>
          Count(calls', "swmm_step") =
              (IF exchanges = 0 \/ (sim.last_swmm_time >= 0 /\ Due(inargs'[0]))
               THEN 1 ELSE 0)]_vars

\* C34, amended: a Calculate on a running session calls swmm_step at most
\* once.  One that gets past its input loop steps exactly when no step time
\* has been recorded since the last successful Initialize (as on the first
\* Calculate of the session) or the elapsed time is due; one that fails in its
\* input loop does not step.  A Calculate that does not step leaves the engine
\* and the recorded time as they were, and having got past its input loop it
\* has set every applied input; a step that returns 0 records the elapsed time.
C34_StepsWhenUnrecordedOrDue ==
    [][(last_call' = "Calculate" /\ sim.is_running) =>
          LET steps == Count(calls', "swmm_step")
          IN  /\ steps <= 1
              /\ (exchanges = 0 => sim.last_swmm_time < 0)
              /\ AskedRouteStep(calls') =>
                    /\ (steps = 1) <=> (sim.last_swmm_time < 0 \/ Due(inargs'[0]))
                    /\ Count(calls', "swmm_setValue") = Cardinality(AppliedInputs(mapping'))
              /\ ~AskedRouteStep(calls') => (steps = 0 /\ status' = FailureWithMessage)
              /\ (steps = 0) =>
                    /\ sim'.last_swmm_time = sim.last_swmm_time
                    /\ engine' = engine
                    /\ sim'.is_running
              /\ (steps = 1 /\ StepCodes(calls') = {0}) =>
                    sim'.last_swmm_time = inargs'[0]]_vars

\* C34 happens: the second Calculate of a session was given the elapsed time
\* recorded at the step of the first, so it set its inputs and read its
\* outputs without stepping.
C34_Witness ==
    /\ last_call = "Calculate" /\ exchanges = 2 /\ status = Success
    /\ sim.is_running
    /\ Count(calls, "swmm_step") = 0
    /\ HasOp(calls, "swmm_setValue")
    /\ OutputReads(calls) # {}
    /\ engine.steps = 1
    /\ sim.last_swmm_time = inargs[0]
    /\ inargs[0] = 199


---------------------------------------------------------------------------
\* The order of the engine calls of a Calculate.

\* The positions in the log of the calls to op.
At(cs, op) == {i \in DOMAIN cs : cs[i].op = op}

\* The last n calls of the log read the output records of m in order, each on
\* the channel of its record, and the slot each record names holds the value
\* read for it, which is the engine's value after all its steps so far.
OutputsReadInto(cs, out, m, e) ==
    LET n == Len(m.outputs)
    IN  /\ Len(cs) >= n
        /\ \A k \in 1..n :
              LET r == m.outputs[k]
                  x == cs[Len(cs) - n + k]
              IN  /\ x.op = "swmm_getValue"
                  /\ x.name = r.name
                  /\ x.ch = OutputProperty(r.object_type, r.property)
                  /\ out[r.interface_index] = EngVal(x.ch, x.idx, e.steps)

\* C35: within one Calculate every swmm_setValue precedes the swmm_step and
\* every read of an output follows it, so that a Calculate that stepped and
\* returns Success with the session running has read every output record
\* after the step and written its value to the slot the record names.
C35_SetStepGet ==
    last_call = "Calculate" =>
        /\ \A i \in At(calls, "swmm_setValue"), j \in At(calls, "swmm_step") : i < j
        /\ \A i \in OutputReads(calls), j \in At(calls, "swmm_step") : j < i
        /\ \A i \in At(calls, "swmm_setValue"), j \in OutputReads(calls) : i < j
        /\ (status = Success /\ sim.is_running) =>
              /\ OutputsReadInto(calls, outargs, mapping, engine)
              /\ Cardinality(OutputReads(calls)) = Len(mapping.outputs)

\* C35 happens: a Calculate set an input, stepped the engine, then read the
\* one output record of its mapping, which names slot 1, into slot 1.
C35_Witness ==
    /\ last_call = "Calculate" /\ status = Success /\ sim.is_running
    /\ mapping = Loaded(LoadFromFile(CfgB))
    /\ \E i \in At(calls, "swmm_setValue"), j \in At(calls, "swmm_step"),
          k \in OutputReads(calls) : i < j /\ j < k
    /\ engine.steps = 1
    /\ outargs[1] = EngVal("swmm_SUBCATCH_RUNOFF", 0, 1)
    /\ outargs[0] = Unset


---------------------------------------------------------------------------
\* The slot of the elapsed time.

\* C36: the elapsed time that decides whether a Calculate steps is the value
\* of the input slot that the SYSTEM record of the mapping names, whichever
\* slot that is: a Calculate that gets past its input loop steps exactly when
\* no step time is recorded or that value is due.
C36_ElapsedTimeFromSystemSlot ==
    [][(last_call' = "Calculate" /\ sim.is_running /\ AskedRouteStep(calls')) =>
          \A j \in SystemInputs(mapping') :
              (Count(calls', "swmm_step") = 1) <=>
                  \/ sim.last_swmm_time < 0
                  \/ Due(inargs'[mapping'.inputs[j].interface_index])]_vars


---------------------------------------------------------------------------
\* A Calculate that fails on its mapping.

\* The messages of a mapping problem found by Calculate.
MappingProblemKinds ==
    {"UnknownInputProperty", "UnknownOutputProperty", "InvalidElementHandle"}

\* C37: a Calculate that returns a failure status because of a mapping problem
\* has made no change to the engine: it has set no value and taken no step.
C37_MappingFailureChangesNothing ==
    (/\ last_call = "Calculate"
     /\ status = FailureWithMessage
     /\ error_buffer.kind \in MappingProblemKinds) =>
        /\ ~HasOp(calls, "swmm_setValue")
        /\ ~HasOp(calls, "swmm_step")


---------------------------------------------------------------------------
\* A session whose driver keeps time: it initializes only when no session is
\* running and then calls Calculate once per time step, each time with an
\* elapsed time at least one routing step after the recorded time of the last
\* step, on an engine whose steps do not fail.

\* Initialize, when no session is running.
StartSession == ~sim.is_running /\ HandleInitialize

\* The input arrays of a timely Calculate: the elapsed time in slot 0, one or
\* two routing steps after the recorded time; that time or 0 in slot 1.
TimelyInputs ==
    LET times == IF sim.last_swmm_time < 0 THEN {0, RouteStep}
                 ELSE {sim.last_swmm_time + RouteStep, sim.last_swmm_time + 2 * RouteStep}
    IN  {[s \in Slots |-> IF s = 0 THEN t ELSE r] : t \in times, r \in {0} \cup times}

TimelyExchange ==
    \E in \in IF sim.is_running THEN TimelyInputs ELSE {NoInput} :
        CalculateWith(in, FALSE)

LiveNext == StartSession \/ TimelyExchange

\* The driver calls Calculate at every time step: a Calculate that would
\* change the state is not put off forever.
LiveSpec == Init /\ [][LiveNext]_vars /\ WF_vars(TimelyExchange)

---------------------------------------------------------------------------
\* The outputs of the Calculate that ends the simulation.

\* The slots that the output records of m name.
OutputSlots(m) == {m.outputs[k].interface_index : k \in DOMAIN m.outputs}

\* C39: the Calculate whose step reports normal termination returns Success
\* with 0.0 in the slot of every output record of the mapping, has read no
\* output from the engine, and leaves every other output slot as the driver
\* passed it.
C39_EndedOutputsZeroed ==
    (last_call = "Calculate" /\ Outcome = "ended") =>
        /\ status = Success
        /\ \A s \in OutputSlots(mapping) : outargs[s] = Num(0)
        /\ \A s \in Slots \ OutputSlots(mapping) : outargs[s] = Fresh[s]
        /\ OutputReads(calls) = {}

\* C39 happens: the simulation ended in a Calculate of a session whose one
\* output record names slot 1; slot 1 holds 0.0 and slot 0 is untouched.
C39_Witness ==
    /\ last_call = "Calculate" /\ Outcome = "ended"
    /\ mapping = Loaded(LoadFromFile(CfgB))
    /\ outargs[1] = Num(0)
    /\ outargs[0] = Unset
    /\ HasOp(calls, "swmm_setValue")
    /\ Closed

=============================================================================
